---- MODULE Spec2Model ----
(***************************************************************************)
(* Repository onboarding of the gitsafe web client: the batch-add dialog   *)
(* (BatchAddDialog.tsx), the dashboard's handlers (Dashboard.tsx), the URL *)
(* helpers (utils.ts) and the API client's view of the backend.            *)
(*                                                                         *)
(* JavaScript strings are TLA+ strings; a character is a one-character     *)
(* string, read with SubSeq.  Indices of the helpers below are 0-based as  *)
(* in JavaScript, -1 meaning "not found".                                  *)
(***************************************************************************)
EXTENDS Integers, Sequences, FiniteSets, TLC

(***************************************************************************)
(* String primitives of the JavaScript runtime                             *)
(***************************************************************************)

\* s[i] for a 0-based i
CharAt(s, i) == SubSeq(s, i + 1, i + 1)

\* String.prototype.indexOf for a one-character needle
IndexOf(s, c) ==
  IF \E k \in 1..Len(s) : SubSeq(s, k, k) = c
  THEN (CHOOSE k \in 1..Len(s) :
          /\ SubSeq(s, k, k) = c
          /\ \A j \in 1..(k - 1) : SubSeq(s, j, j) # c) - 1
  ELSE -1

\* String.prototype.substring(start) and substring(start, end)
SubstringFrom(s, start) == SubSeq(s, start + 1, Len(s))
Substring(s, start, end) == SubSeq(s, start + 1, end)

\* String.prototype.startsWith / endsWith
StartsWith(s, p) == Len(s) >= Len(p) /\ SubSeq(s, 1, Len(p)) = p
EndsWith(s, p) == Len(s) >= Len(p) /\ SubSeq(s, Len(s) - Len(p) + 1, Len(s)) = p

\* the white space String.prototype.trim removes (the model's alphabet has
\* the space only)
IsSpace(c) == c = " "

RECURSIVE TrimStart(_)
TrimStart(s) ==
  IF Len(s) > 0 /\ IsSpace(SubSeq(s, 1, 1)) THEN TrimStart(SubSeq(s, 2, Len(s))) ELSE s

RECURSIVE TrimEnd(_)
TrimEnd(s) ==
  IF Len(s) > 0 /\ IsSpace(SubSeq(s, Len(s), Len(s)))
  THEN TrimEnd(SubSeq(s, 1, Len(s) - 1)) ELSE s

\* String.prototype.trim
Trim(s) == TrimEnd(TrimStart(s))

\* String.prototype.split for a one-character separator: a sequence of strings
RECURSIVE Split(_, _)
Split(s, sep) ==
  LET k == IndexOf(s, sep)
  IN IF k = -1 THEN <<s>>
     ELSE <<Substring(s, 0, k)>> \o Split(SubstringFrom(s, k + 1), sep)

\* Array.prototype.filter(segment => segment.length > 0)
NonEmpty(seq) == SelectSeq(seq, LAMBDA z : Len(z) > 0)

\* Array.prototype.join
RECURSIVE Join(_, _)
Join(seq, sep) ==
  IF seq = <<>> THEN ""
  ELSE IF Len(seq) = 1 THEN seq[1]
  ELSE seq[1] \o sep \o Join(Tail(seq), sep)

\* String.prototype.replace(/\./g, '_')
RECURSIVE ReplaceDots(_)
ReplaceDots(s) ==
  IF Len(s) = 0 THEN ""
  ELSE (IF SubSeq(s, 1, 1) = "." THEN "_" ELSE SubSeq(s, 1, 1))
       \o ReplaceDots(SubSeq(s, 2, Len(s)))

(***************************************************************************)
(* utils.ts                                                                *)
(***************************************************************************)

\* a classifier that does not look for a '/' after the '@'
isSshUrlColonOnly(url) ==
  IndexOf(url, "@") # -1 /\ IndexOf(SubstringFrom(url, IndexOf(url, "@") + 1), ":") # -1

\* isSshUrl(url)
isSshUrl(url) ==
  LET atIndex == IndexOf(url, "@")
      afterAt == SubstringFrom(url, atIndex + 1)
      colonIndex == IndexOf(afterAt, ":")
      slashIndex == IndexOf(afterAt, "/")
  IN IF atIndex = -1 THEN FALSE
     ELSE IF colonIndex = -1 THEN FALSE
     ELSE IF slashIndex = -1 THEN TRUE
     ELSE colonIndex < slashIndex

(***************************************************************************)
(* new URL(url) of the browser (the WHATWG URL parser), for the inputs     *)
(* the handlers give it: no base URL, no tab or newline inside the string, *)
(* no '[', '\' or '%', and no host name whose last label is a number.     *)
(***************************************************************************)

Letters ==
  {"a", "b", "c", "d", "e", "f", "g", "h", "i", "j", "k", "l", "m", "n",
   "o", "p", "q", "r", "s", "t", "u", "v", "w", "x", "y", "z"}
Digits == {"0", "1", "2", "3", "4", "5", "6", "7", "8", "9"}

\* every character of s is in set
AllIn(s, set) == \A k \in 1..Len(s) : SubSeq(s, k, k) \in set

\* index (0-based) of the first character of s that is in set, Len(s) if none
FirstOf(s, set) ==
  IF \E k \in 1..Len(s) : SubSeq(s, k, k) \in set
  THEN (CHOOSE k \in 1..Len(s) :
          /\ SubSeq(s, k, k) \in set
          /\ \A j \in 1..(k - 1) : SubSeq(s, j, j) \notin set) - 1
  ELSE Len(s)

\* String.prototype.lastIndexOf for a one-character needle
LastIndexOf(s, c) ==
  IF \E k \in 1..Len(s) : SubSeq(s, k, k) = c
  THEN (CHOOSE k \in 1..Len(s) :
          /\ SubSeq(s, k, k) = c
          /\ \A j \in (k + 1)..Len(s) : SubSeq(s, j, j) # c) - 1
  ELSE -1

\* the scheme of a URL string whose first ':' is at index k: the text before
\* it when that is a letter followed by letters, digits, '+', '-' or '.';
\* "" when there is none
SchemeBefore(url, k) ==
  IF k >= 1 /\ SubSeq(url, 1, 1) \in Letters
     /\ AllIn(SubSeq(url, 1, k), Letters \cup Digits \cup {"+", "-", "."})
  THEN SubSeq(url, 1, k) ELSE ""

UrlScheme(url) == SchemeBefore(url, IndexOf(url, ":"))

SpecialSchemes == {"http", "https", "ftp", "ws", "wss"}

\* the slashes the parser skips after "scheme:" before the authority
RECURSIVE SkipSlashes(_)
SkipSlashes(s) ==
  IF Len(s) > 0 /\ SubSeq(s, 1, 1) = "/" THEN SkipSlashes(SubSeq(s, 2, Len(s))) ELSE s

\* the value of a string of digits
RECURSIVE DigitsValue(_)
DigitsValue(s) ==
  IF Len(s) = 0 THEN 0
  ELSE 10 * DigitsValue(SubSeq(s, 1, Len(s) - 1))
       + (CHOOSE n \in 0..9 : SubSeq("0123456789", n + 1, n + 1) = SubSeq(s, Len(s), Len(s)))

\* path segments after the removal of "." and ".." segments
RECURSIVE DotSegments(_, _)
DotSegments(segs, acc) ==
  IF segs = <<>> THEN acc
  ELSE IF Head(segs) = ".."
  THEN DotSegments(Tail(segs),
         (IF acc = <<>> THEN acc ELSE SubSeq(acc, 1, Len(acc) - 1))
         \o (IF Len(segs) = 1 THEN <<"">> ELSE <<>>))
  ELSE IF Head(segs) = "."
  THEN DotSegments(Tail(segs), acc \o (IF Len(segs) = 1 THEN <<"">> ELSE <<>>))
  ELSE DotSegments(Tail(segs), acc \o <<Head(segs)>>)

UrlFailure == [ok |-> FALSE, hostname |-> "", pathname |-> ""]

\* the pathname of a path that follows an authority
PathnameOf(path) ==
  IF Len(path) = 0 THEN "/"
  ELSE "/" \o Join(DotSegments(Split(SubstringFrom(path, 1), "/"), <<>>), "/")

\* the host and port are checked: a special scheme needs a host, the host
\* has no forbidden character, the port is a number up to 65535
UrlOfParts(special, host, port, path) ==
  IF \/ (special /\ host = "")
     \/ ~AllIn(host, Letters \cup Digits \cup {".", "-", "_"})
     \/ ~AllIn(port, Digits)
     \/ (Len(port) > 0 /\ DigitsValue(port) > 65535)
  THEN UrlFailure
  ELSE [ok |-> TRUE, hostname |-> host, pathname |-> PathnameOf(path)]

\* host:port is split at its first ':' (at index colon, -1 if none)
UrlOfHostPort(special, hostport, colon, path) ==
  UrlOfParts(special,
             IF colon = -1 THEN hostport ELSE Substring(hostport, 0, colon),
             IF colon = -1 THEN "" ELSE SubstringFrom(hostport, colon + 1),
             path)

\* the authority's userinfo ends at its last '@' (at index at, -1 if none);
\* userinfo with nothing after it is a failure
UrlOfAuthority(special, authority, at, path) ==
  IF at # -1 /\ at + 1 = Len(authority) THEN UrlFailure
  ELSE UrlOfHostPort(special, SubstringFrom(authority, at + 1),
                     IndexOf(SubstringFrom(authority, at + 1), ":"), path)

\* the authority ends at the first '/', '?' or '#' (index authEnd); the path
\* ends at the first '?' or '#'
UrlOfAfterSlashes(special, afterSl, authEnd) ==
  UrlOfAuthority(special, Substring(afterSl, 0, authEnd),
                 LastIndexOf(Substring(afterSl, 0, authEnd), "@"),
                 Substring(SubstringFrom(afterSl, authEnd), 0,
                           FirstOf(SubstringFrom(afterSl, authEnd), {"?", "#"})))

\* what follows "scheme:": an authority after "//" (a special scheme skips
\* every slash), or an opaque path
UrlOfRest(scheme, rest) ==
  IF scheme = "" THEN UrlFailure
  ELSE IF scheme \in SpecialSchemes
  THEN UrlOfAfterSlashes(TRUE, SkipSlashes(rest),
                         FirstOf(SkipSlashes(rest), {"/", "?", "#"}))
  ELSE IF StartsWith(rest, "//")
  THEN UrlOfAfterSlashes(FALSE, SubstringFrom(rest, 2),
                         FirstOf(SubstringFrom(rest, 2), {"/", "?", "#"}))
  ELSE [ok |-> TRUE, hostname |-> "",
        pathname |-> Substring(rest, 0, FirstOf(rest, {"?", "#"}))]

UrlOfScheme(url, scheme) == UrlOfRest(scheme, SubstringFrom(url, Len(scheme) + 1))

\* new URL(url): [ok |-> FALSE] when the constructor throws, otherwise the
\* hostname and pathname properties of the parsed URL
ParseUrl(url) == UrlOfScheme(url, UrlScheme(url))

\* segment.endsWith('.git') ? segment.slice(0, -4) : segment
CleanSegment(segment) ==
  IF EndsWith(segment, ".git") THEN SubSeq(segment, 1, Len(segment) - 4) ELSE segment

\* pathSegments of a path with the .git suffixes removed
CleanSegments(path) ==
  [k \in 1..Len(NonEmpty(Split(path, "/"))) |-> CleanSegment(NonEmpty(Split(path, "/"))[k])]

\* repoNameFromUrl, the catch block: the manual extraction from a string that
\* starts with protocol ("" when url.match(/^https?:\/\//) is null)
RepoNameFallback(afterProtocol, matched, pathStart) ==
  IF matched /\ pathStart # -1
  THEN Join(<<ReplaceDots(Substring(afterProtocol, 0, pathStart))>>
            \o CleanSegments(SubstringFrom(afterProtocol, pathStart + 1)), "-")
  ELSE ""

\* repoNameFromUrl, the try block with parsedUrl = new URL(url)
RepoNameParsed(url, parsedUrl) ==
  IF parsedUrl.ok
  THEN Join((IF parsedUrl.hostname # "" THEN <<ReplaceDots(parsedUrl.hostname)>> ELSE <<>>)
            \o CleanSegments(parsedUrl.pathname), "-")
  ELSE IF StartsWith(url, "http://")
  THEN RepoNameFallback(SubstringFrom(url, 7), TRUE, IndexOf(SubstringFrom(url, 7), "/"))
  ELSE IF StartsWith(url, "https://")
  THEN RepoNameFallback(SubstringFrom(url, 8), TRUE, IndexOf(SubstringFrom(url, 8), "/"))
  ELSE RepoNameFallback(url, FALSE, -1)

\* repoNameFromUrl, the SSH branch for the text after the first '@', whose
\* first ':' is at colonIndex
RepoNameSsh(url, afterAt, colonIndex) ==
  IF colonIndex # -1
  THEN Join(<<ReplaceDots(Substring(afterAt, 0, colonIndex))>>
            \o CleanSegments(SubstringFrom(afterAt, colonIndex + 1)), "-")
  ELSE RepoNameParsed(url, ParseUrl(url))

RepoNameAt(url, atIndex) ==
  IF atIndex # -1
  THEN RepoNameSsh(url, SubstringFrom(url, atIndex + 1),
                   IndexOf(SubstringFrom(url, atIndex + 1), ":"))
  ELSE RepoNameParsed(url, ParseUrl(url))

\* repoNameFromUrl(url)
repoNameFromUrl(url) == RepoNameAt(url, IndexOf(url, "@"))

(***************************************************************************)
(* Bounds and input sets                                                   *)
(***************************************************************************)

\* the most lines the operator types into the batch dialog's textarea
MaxLines == 2

\* the lines the operator types: an HTTPS URL, an SSH reference, a line that
\* is neither, an http:// line that does not parse, and a blank line
LineChoices == {"https://h.c/o/r.git", "git@h.c:o/q", "ftp://h.c/r", "http://", " "}

\* the textarea's content, as its lines (the text split at the newlines)
Texts == UNION {[1..n -> LineChoices] : n \in 1..MaxLines}

\* the credentials the backend holds: one password, one SSH key
BackendCredentials ==
  {[id |-> "pw", is_ssh_key |-> FALSE], [id |-> "key", is_ssh_key |-> TRUE]}

\* what the operator types into the credential field
CredentialInputs == {"", "pw", "key", "nope"}

\* JavaScript's null
NULL == "<null>"

(***************************************************************************)
(* BatchAddDialog.tsx: pure parts                                          *)
(***************************************************************************)

\* parseUrls(urlText): the trimmed lines that are not empty
parseUrls(urlText) ==
  NonEmpty([k \in 1..Len(urlText) |-> Trim(urlText[k])])

\* urls.trim() of the textarea's text is not empty
TextNotBlank(urlText) == \E k \in 1..Len(urlText) : Trim(urlText[k]) # ""

\* validateUrl(url): the error message, or NULL
validateUrl(url) ==
  LET urlIsHttp == StartsWith(url, "http://") \/ StartsWith(url, "https://")
      urlIsSsh == isSshUrl(url)
  IN IF ~urlIsHttp /\ ~urlIsSsh
     THEN "Invalid URL format. Use HTTP/HTTPS or SSH format (git@host:path)"
     ELSE IF urlIsHttp /\ ~ParseUrl(url).ok
     THEN "Invalid HTTP/HTTPS URL format"
     ELSE NULL

\* urlErrors of handleBatchAdd: one entry `Line ${index + 1}: ${error}` for
\* each element of urlList that validateUrl rejects, kept as [line, error]
RECURSIVE UrlErrorsFrom(_, _)
UrlErrorsFrom(urlList, index) ==
  IF index >= Len(urlList) THEN <<>>
  ELSE (IF validateUrl(urlList[index + 1]) # NULL
        THEN <<[line |-> index + 1, error |-> validateUrl(urlList[index + 1])]>>
        ELSE <<>>)
       \o UrlErrorsFrom(urlList, index + 1)

\* a validation that stops at the first error
FirstUrlError(urlList) ==
  IF UrlErrorsFrom(urlList, 0) = <<>> THEN <<>> ELSE <<Head(UrlErrorsFrom(urlList, 0))>>

UrlErrors(urlList) == UrlErrorsFrom(urlList, 0)

\* credentialSuggestions
CredentialSuggestions(creds) == {c.id : c \in creds}

\* a scan that looks at the first URL only
HasHttpUrlFirstOnly(urlList) ==
  /\ Len(urlList) > 0
  /\ StartsWith(urlList[1], "http://") \/ StartsWith(urlList[1], "https://")
  /\ ~isSshUrl(urlList[1])

\* hasHttpUrl of handleBatchAdd
HasHttpUrl(urlList) ==
  \E k \in 1..Len(urlList) :
    /\ StartsWith(urlList[k], "http://") \/ StartsWith(urlList[k], "https://")
    /\ ~isSshUrl(urlList[k])

\* pre-flight checks without those of the credential
PreflightOfUrlsOnly(urlText, credId, creds) ==
  IF ~TextNotBlank(urlText) \/ Len(parseUrls(urlText)) = 0
  THEN [kind |-> "empty", lines |-> <<>>, credentialError |-> FALSE]
  ELSE IF Len(UrlErrors(parseUrls(urlText))) > 0
  THEN [kind |-> "invalid_urls", lines |-> UrlErrors(parseUrls(urlText)),
        credentialError |-> FALSE]
  ELSE [kind |-> "none", lines |-> <<>>, credentialError |-> FALSE]

\* the pre-flight checks of the dialog's handleBatchAdd, in the code's order:
\* the error it sets and returns with, or [kind |-> "none"] when it goes on
Preflight(urlText, credId, creds) ==
  LET urlList == parseUrls(urlText)
      urlErrors == UrlErrors(urlList)
      cid == Trim(credId)
      selected == {c \in creds : c.id = cid}
  IN IF ~TextNotBlank(urlText) \/ Len(urlList) = 0
     THEN [kind |-> "empty", lines |-> <<>>, credentialError |-> FALSE]
     ELSE IF Len(urlErrors) > 0
     THEN [kind |-> "invalid_urls", lines |-> urlErrors, credentialError |-> FALSE]
     ELSE IF cid # "" /\ cid \notin CredentialSuggestions(creds)
     THEN [kind |-> "invalid_credential", lines |-> <<>>, credentialError |-> TRUE]
     ELSE IF cid # "" /\ \E c \in selected : HasHttpUrl(urlList) /\ c.is_ssh_key
     THEN [kind |-> "credential_mismatch", lines |-> <<>>, credentialError |-> TRUE]
     ELSE [kind |-> "none", lines |-> <<>>, credentialError |-> FALSE]

\* value || null
OrNull(str) == IF str = "" THEN NULL ELSE str

\* the repositories handed to onBatchAdd
BatchItems(urlList, credId) ==
  [k \in 1..Len(urlList) |->
     [url |-> Trim(urlList[k]),
      credential_id |-> OrNull(Trim(credId)),
      id |-> OrNull(repoNameFromUrl(Trim(urlList[k])))]]

(***************************************************************************)
(* State                                                                   *)
(***************************************************************************)

VARIABLES
  \* the backend, as the API client sees it
  backendRepos,        \* ids of the repositories the backend holds
  \* Dashboard
  credentials,         \* the credentials last loaded
  initialLoading,      \* the loading screen replaces the dashboard and its dialogs
  mountLoad,           \* the loadInitialData of the mount effect is in flight
  showBatchAddDialog,
  showAddDialog,
  syncingRepos,
  syncCalls,           \* the handleSync calls in flight: [id, st], st "sync" or "reload"
  notices,             \* what showError / showInfo were given since the operation began
  \* the mounted BatchAddDialog
  urls,                \* the textarea, as its lines
  credentialId,
  processing,
  error,
  credentialError,
  progress,            \* <<>> for null, else <<current, total>>
  \* the handleBatchAdd call in progress
  pc,                  \* "idle", "add", "add_reload", "sync"
  repositories,
  i,
  addedRepos,
  errors,
  tasks,               \* the sync promises, one per element of addedRepos
  attached,            \* the dialog instance that made the call is still mounted
  batchResult,         \* "none", "pending", "resolved", or the message thrown
  \* the handleAddRepository call and the RepositoryAddDialog
  spc,                 \* "idle", "add", "reload", "sync", "sync_reload"
  newRepo,             \* the id addRepository returned, NULL if none
  saving,
  addError,
  saveResult,          \* "none", "pending", "resolved", or the message thrown
  \* the handleDelete call in progress
  dpc,                 \* "idle", "delete", "reload"
  \* the remote calls and progress callbacks of the operation in progress and
  \* the backend's answers to its syncs
  log,
  syncAnswers,
  \* a call of one of the pure functions: its arguments and what it returned
  input,
  output

vars ==
  <<backendRepos, credentials, initialLoading, mountLoad,
    showBatchAddDialog, showAddDialog, syncingRepos, notices, urls, credentialId,
    processing, error, credentialError, progress, pc, repositories, i, addedRepos,
    errors, tasks, attached, batchResult, spc, newRepo, saving, addError,
    saveResult, dpc, log, syncAnswers, syncCalls, input, output>>

pureVars == <<input, output>>
backendVars == <<backendRepos>>
dialogVars == <<urls, credentialId, processing, error, credentialError, progress>>
batchVars == <<pc, repositories, i, addedRepos, errors, tasks, attached, batchResult>>
singleVars == <<spc, newRepo, saving, addError, saveResult>>

NoError == [kind |-> "none", lines |-> <<>>, text |-> ""]
MessageError(text) == [kind |-> "message", lines |-> <<>>, text |-> text]

\* the ids a repository of the model can have: those of the lines that
\* validateUrl accepts
RepoIds == {repoNameFromUrl(Trim(l)) : l \in {c \in LineChoices : validateUrl(Trim(c)) = NULL}}

\* no pure function is being called
NoInput == [fn |-> "none"]
NoOutput == [fn |-> "none"]

\* the dashboard as it is mounted
InitDashboard ==
  /\ backendRepos \in SUBSET RepoIds
  /\ credentials = {}
  /\ initialLoading = TRUE
  /\ mountLoad = TRUE
  /\ showBatchAddDialog = FALSE
  /\ showAddDialog = FALSE
  /\ syncingRepos = {}
  /\ syncCalls = <<>>
  /\ notices = {}
  /\ urls = <<"">>
  /\ credentialId = ""
  /\ processing = FALSE
  /\ error = NoError
  /\ credentialError = ""
  /\ progress = <<>>
  /\ pc = "idle"
  /\ repositories = <<>>
  /\ i = 0
  /\ addedRepos = <<>>
  /\ errors = <<>>
  /\ tasks = <<>>
  /\ attached = FALSE
  /\ batchResult = "none"
  /\ spc = "idle"
  /\ newRepo = NULL
  /\ saving = FALSE
  /\ addError = ""
  /\ saveResult = "none"
  /\ dpc = "idle"
  /\ log = <<>>
  /\ syncAnswers = <<>>

Init ==
  /\ InitDashboard
  /\ input = NoInput
  /\ output = NoOutput

\* no handler is suspended at an await
Quiet == pc = "idle" /\ spc = "idle" /\ dpc = "idle" /\ ~mountLoad

\* the dashboard, not the loading screen, is rendered
Visible == ~initialLoading

\* the locals of a handler that has returned, and the notifications it
\* raised, are kept until the operator's next event, which drops them
Forgotten ==
  /\ repositories' = <<>>
  /\ i' = 0
  /\ addedRepos' = <<>>
  /\ errors' = <<>>
  /\ tasks' = <<>>
  /\ attached' = FALSE
  /\ batchResult' = "none"
  /\ newRepo' = NULL
  /\ saveResult' = "none"
  /\ log' = <<>>
  /\ syncAnswers' = <<>>
  /\ notices' = {}

(***************************************************************************)
(* Dashboard.tsx: loadInitialData                                          *)
(***************************************************************************)

LoadFailed == [type |-> "error", what |-> "Failed to load data", n |-> 0, m |-> 0]

\* loadInitialData up to its await: setInitialLoading(true) puts the loading
\* screen in place of the dashboard, which unmounts the dialogs; the
\* BatchAddDialog that is mounted afterwards starts from its useState values
LoadStarts ==
  /\ initialLoading' = TRUE
  /\ urls' = <<"">>
  /\ credentialId' = ""
  /\ processing' = FALSE
  /\ error' = NoError
  /\ credentialError' = ""
  /\ progress' = <<>>
  /\ attached' = FALSE
  /\ saving' = FALSE
  /\ addError' = ""

\* loadInitialData from its await on: the loaded lists replace the old ones,
\* or the error is shown (of the lists, the model keeps the credentials)
LoadEnds(ok) ==
  /\ initialLoading' = FALSE
  /\ credentials' = IF ok THEN BackendCredentials ELSE credentials

NoticesAfterLoad(ok) == IF ok THEN notices ELSE notices \cup {LoadFailed}

\* the mount effect's loadInitialData returns
MountLoadResponse(ok) ==
  /\ mountLoad
  /\ mountLoad' = FALSE
  /\ LoadEnds(ok)
  /\ notices' = NoticesAfterLoad(ok)
  /\ UNCHANGED <<pureVars, syncCalls, backendVars, showBatchAddDialog, showAddDialog, syncingRepos,
                 dialogVars, batchVars, singleVars, dpc, log, syncAnswers>>

(***************************************************************************)
(* BatchAddDialog.tsx: the operator's events                               *)
(***************************************************************************)

\* the "+ Batch Add Repositories" button; the dialog's effect on isOpen
\* clears its fields
ShowBatchAdd ==
  /\ Visible /\ Quiet /\ ~showBatchAddDialog /\ ~showAddDialog
  /\ showBatchAddDialog' = TRUE
  /\ urls' = <<"">>
  /\ credentialId' = ""
  /\ error' = NoError
  /\ credentialError' = ""
  /\ progress' = <<>>
  /\ Forgotten
  /\ UNCHANGED <<pureVars, syncCalls, backendVars, credentials, initialLoading, mountLoad,
                 showAddDialog, syncingRepos, processing, pc, spc, saving, addError,
                 dpc>>

\* the operator types one more line: the empty textarea gets its first line,
\* a textarea with lines gets a newline and the next line
Typed(old, new) ==
  \/ old = <<"">> /\ Len(new) = 1
  \/ old # <<"">> /\ Len(new) = Len(old) + 1 /\ SubSeq(new, 1, Len(old)) = old

\* the textarea's onChange
SetUrls(text) ==
  /\ Visible /\ Quiet /\ showBatchAddDialog /\ ~processing
  /\ Typed(urls, text)
  /\ urls' = text
  /\ error' = NoError
  /\ Forgotten
  /\ UNCHANGED <<pureVars, syncCalls, backendVars, credentials, initialLoading, mountLoad,
                 showBatchAddDialog, showAddDialog, syncingRepos, credentialId,
                 processing, credentialError, progress, pc, spc, saving, addError,
                 dpc>>

\* handleCredentialIdChange(value); the operator picks the credential before
\* typing the lines
handleCredentialIdChange(value) ==
  /\ Visible /\ Quiet /\ showBatchAddDialog /\ ~processing
  /\ urls = <<"">> /\ error = NoError
  /\ credentialId' = value
  /\ credentialError' =
       IF Trim(value) # "" /\ Trim(value) \notin CredentialSuggestions(credentials)
       THEN "Please select a credential from the list" ELSE ""
  /\ Forgotten
  /\ UNCHANGED <<pureVars, syncCalls, backendVars, credentials, initialLoading, mountLoad,
                 showBatchAddDialog, showAddDialog, syncingRepos, urls, processing,
                 error, progress, pc, spc, saving, addError, dpc>>

\* handleCancel: the Cancel button (disabled while processing), the close
\* button and a click on the overlay
handleCancel ==
  /\ Visible /\ showBatchAddDialog
  /\ urls' = <<"">>
  /\ credentialId' = ""
  /\ error' = NoError
  /\ credentialError' = ""
  /\ progress' = <<>>
  /\ showBatchAddDialog' = FALSE
  /\ IF Quiet THEN Forgotten
     ELSE UNCHANGED <<repositories, i, addedRepos, errors, tasks, attached,
                      batchResult, newRepo, saveResult, log, syncAnswers, notices>>
  /\ UNCHANGED <<pureVars, syncCalls, backendVars, credentials, initialLoading, mountLoad,
                 showAddDialog, syncingRepos, processing, pc, spc, saving, addError,
                 dpc>>

\* the "+ Batch Add Repositories" button while a handleBatchAdd call is in
\* flight and the dialog has been closed: the dialog's effect on isOpen
\* clears its fields, the call goes on
ReopenBatchAdd ==
  /\ Visible /\ pc # "idle" /\ ~showBatchAddDialog /\ ~showAddDialog
  /\ showBatchAddDialog' = TRUE
  /\ urls' = <<"">>
  /\ credentialId' = ""
  /\ error' = NoError
  /\ credentialError' = ""
  /\ progress' = <<>>
  /\ UNCHANGED <<pureVars, syncCalls, backendVars, credentials, initialLoading, mountLoad,
                 showAddDialog, syncingRepos, notices, processing, batchVars,
                 singleVars, dpc, log, syncAnswers>>

(***************************************************************************)
(* The log of remote calls and progress callbacks                          *)
(***************************************************************************)

AddCall(idx) == [ev |-> "add", idx |-> idx, id |-> "", cur |-> 0, tot |-> 0]
AddReturn(idx) == [ev |-> "add_return", idx |-> idx, id |-> "", cur |-> 0, tot |-> 0]
ProgressCall(cur, tot) == [ev |-> "progress", idx |-> 0, id |-> "", cur |-> cur, tot |-> tot]
SyncCall(id) == [ev |-> "sync", idx |-> 0, id |-> id, cur |-> 0, tot |-> 0]
DeleteCall(id) == [ev |-> "delete", idx |-> 0, id |-> id, cur |-> 0, tot |-> 0]

\* the entries of a log that are of one kind
Only(lg, ev) == SelectSeq(lg, LAMBDA e : e.ev = ev)

(***************************************************************************)
(* Dashboard.tsx: handleBatchAdd                                           *)
(***************************************************************************)

FatalMessage == "No repositories were added successfully"

AddFailedNotice(n) == [type |-> "error", what |-> "Failed to add", n |-> n, m |-> 0]
SyncFailedNotice(n, m) == [type |-> "error", what |-> "Added, syncs failed", n |-> n, m |-> m]
SyncedNotice(n) == [type |-> "info", what |-> "Successfully added and synced", n |-> n, m |-> 0]
DialogAddedNotice(n) == [type |-> "info", what |-> "Successfully added", n |-> n, m |-> 0]
ThrownNotice(text) == [type |-> "error", what |-> text, n |-> 0, m |-> 0]

\* a loop that a failed attempt would end
LoopStopsOnFailure(idx, n, failed) == ~failed /\ idx + 1 < n

\* a loop that goes on only after a failed attempt
LoopContinuesAfterFailure(idx, n, failed) == failed /\ idx + 1 < n

\* a loop that ends when the dialog has been closed
LoopContinuesWhileOpen(idx, n, failed) == showBatchAddDialog /\ idx + 1 < n

\* the for statement's test after the attempt for item idx: is there a next item
LoopContinues(idx, n, failed) == idx + 1 < n

\* a catch block without a progress update
ProgressDropped(lg, idx, n) == lg

\* the catch block's progress update: onProgress(i + 1, repositories.length)
ProgressOnError(lg, idx, n) == Append(lg, ProgressCall(idx + 1, n))

\* a try block whose progress update is not made before the next iteration
ProgressDeferred(lg, idx, n) == lg

\* the try block's progress update after the reload
ProgressOnSuccess(lg, idx, n) == Append(lg, ProgressCall(idx + 1, n))

\* a handler without the throw
NeverNoneAdded(added) == FALSE

\* addedRepos.length === 0: the throw
NoneAdded(added) == Len(added) = 0

\* a map that starts the first sync only
FirstTarget(added) == IF added = <<>> THEN <<>> ELSE <<Head(added)>>

\* the ids addedRepos.map starts a sync for
SyncTargets(added) == added

\* the sync promises of addedRepos.map, each run up to its await: the ones
\* whose syncRepository call has been made
StartedTasks(added) ==
  [k \in 1..Len(added) |-> [st |-> "sync", success |-> FALSE]]

\* the syncRepository calls of the map, in order
RECURSIVE SyncCalls(_)
SyncCalls(ids) ==
  IF ids = <<>> THEN <<>> ELSE <<SyncCall(Head(ids))>> \o SyncCalls(Tail(ids))

Range(seq) == {seq[k] : k \in 1..Len(seq)}

\* a dialog callback that stores its arguments the other way round
DialogProgressSwapped(current, total) == <<total, current>>

\* the dialog's callback given to onBatchAdd: setProgress({ current, total })
DialogProgress(current, total) == <<current, total>>

\* handleBatchAdd after the attempt for item idx, the progress update made
\* (lg): the next iteration up to its await, or the statements after the loop
\* up to the await of Promise.all, or the throw and the dialog's catch and
\* finally blocks
AfterAttempt(idx, added, errs, lg, nts, failed) ==
  LET n == Len(repositories)
      shown == IF attached THEN DialogProgress(idx + 1, n) ELSE progress
      nts1 == IF Len(errs) > 0 THEN nts \cup {AddFailedNotice(Len(errs))} ELSE nts
  IN /\ addedRepos' = added
     /\ errors' = errs
     /\ UNCHANGED <<repositories, showBatchAddDialog>>
     /\ IF LoopContinues(idx, n, failed)
        THEN /\ i' = idx + 1
             /\ pc' = "add"
             /\ log' = Append(lg, AddCall(idx + 1))
             /\ notices' = nts
             /\ progress' = shown
             /\ UNCHANGED <<processing, error, tasks, syncingRepos, batchResult, syncAnswers>>
        ELSE IF NoneAdded(added)
        THEN /\ i' = idx + 1
             /\ pc' = "idle"
             /\ log' = lg
             /\ batchResult' = FatalMessage
             /\ notices' = nts1 \cup {ThrownNotice(FatalMessage)}
             /\ error' = IF attached THEN MessageError(FatalMessage) ELSE error
             /\ processing' = IF attached THEN FALSE ELSE processing
             /\ progress' = IF attached THEN <<>> ELSE progress
             /\ UNCHANGED <<tasks, syncingRepos, syncAnswers>>
        ELSE /\ i' = idx + 1
             /\ pc' = "sync"
             /\ log' = lg \o SyncCalls(SyncTargets(added))
             /\ tasks' = StartedTasks(SyncTargets(added))
             /\ syncAnswers' = [k \in 1..Len(SyncTargets(added)) |-> "none"]
             /\ syncingRepos' = syncingRepos \cup Range(SyncTargets(added))
             /\ notices' = nts1
             /\ progress' = shown
             /\ UNCHANGED <<processing, error, batchResult>>

\* BatchAddDialog's handleBatchAdd (the Add button): the pre-flight checks,
\* then onBatchAdd, which runs the dashboard's handleBatchAdd up to the await
\* of the first addRepository call
BatchAddDialog_handleBatchAdd ==
  /\ Visible /\ Quiet /\ showBatchAddDialog /\ ~processing /\ TextNotBlank(urls)
  /\ LET pre == Preflight(urls, credentialId, credentials)
         items == BatchItems(parseUrls(urls), credentialId)
     IN IF pre.kind # "none"
        THEN /\ error' = [kind |-> pre.kind, lines |-> pre.lines, text |-> ""]
             /\ credentialError' =
                  IF pre.credentialError THEN pre.kind ELSE credentialError
             /\ Forgotten
             /\ UNCHANGED <<processing, progress, pc>>
        ELSE /\ processing' = TRUE
             /\ error' = NoError
             /\ credentialError' = ""
             /\ progress' = <<0, Len(items)>>
             /\ repositories' = items
             /\ i' = 0
             /\ addedRepos' = <<>>
             /\ errors' = <<>>
             /\ tasks' = <<>>
             /\ syncAnswers' = <<>>
             /\ attached' = TRUE
             /\ batchResult' = "pending"
             /\ pc' = "add"
             /\ notices' = {}
             /\ log' = <<AddCall(0)>>
             /\ newRepo' = NULL
             /\ saveResult' = "none"
  /\ UNCHANGED <<pureVars, syncCalls, backendVars, credentials, initialLoading, mountLoad,
                 showBatchAddDialog, showAddDialog, syncingRepos, urls, credentialId,
                 spc, saving, addError, dpc>>

\* the messages with which the backend refuses an add
AddFailures == {"Repository already exists", "Failed to fetch"}

\* the id under which the backend stores an added repository
StoredId(item) == IF item.id = NULL THEN repoNameFromUrl(item.url) ELSE item.id

\* apiClient.addRepository throws: the catch block, then the loop goes on
AddFails(message) ==
  /\ pc = "add"
  /\ message \in AddFailures
  /\ message = "Repository already exists" <=> StoredId(repositories[i + 1]) \in backendRepos
  /\ LET repo == repositories[i + 1]
         errs == Append(errors, repo.url \o ": " \o message)
         lg == ProgressOnError(Append(log, AddReturn(i)), i, Len(repositories))
     IN AfterAttempt(i, addedRepos, errs, lg, notices, TRUE)
  /\ UNCHANGED <<pureVars, syncCalls, backendVars, credentials, initialLoading, mountLoad,
                 showAddDialog, urls, credentialId, credentialError, attached,
                 singleVars, dpc>>

\* apiClient.addRepository returns, with or without an id in the answer: the
\* push, and loadInitialData up to its await
AddSucceeds(withId) ==
  /\ pc = "add"
  /\ StoredId(repositories[i + 1]) \notin backendRepos
  /\ backendRepos' = backendRepos \cup {StoredId(repositories[i + 1])}
  /\ addedRepos' = IF withId THEN Append(addedRepos, StoredId(repositories[i + 1]))
                   ELSE addedRepos
  /\ log' = Append(log, AddReturn(i))
  /\ pc' = "add_reload"
  /\ LoadStarts
  /\ UNCHANGED <<pureVars, syncCalls, credentials, mountLoad, showBatchAddDialog,
                 showAddDialog, syncingRepos, notices, repositories, i, errors, tasks,
                 batchResult, spc, newRepo, saveResult, dpc, syncAnswers>>

\* the loadInitialData after an add returns: the progress update, then the
\* loop goes on
AddReloadResponse(ok) ==
  /\ pc = "add_reload"
  /\ LoadEnds(ok)
  /\ AfterAttempt(i, addedRepos, errors,
                  ProgressOnSuccess(log, i, Len(repositories)),
                  NoticesAfterLoad(ok), FALSE)
  /\ UNCHANGED <<pureVars, syncCalls, backendVars, mountLoad, showAddDialog, urls, credentialId,
                 credentialError, attached, singleVars, dpc>>

\* a catch block that would delete the repository whose sync threw
BackendSyncReverts(repos, repoId, returned) == IF returned THEN repos ELSE repos \ {repoId}

\* the repositories the backend holds once a sync of repoId has returned or
\* thrown: neither the try nor the catch block makes a call that adds or
\* removes one
BackendAfterSync(repos, repoId, returned) == repos

\* the value a sync promise resolves with: { repoId, success } from the try
\* block when syncRepository returned, from the catch block when it threw
SyncResult(repoId, returned) == [repoId |-> repoId, success |-> returned]

\* syncResults of Promise.all: the promises' values, in the order of addedRepos
SyncResults == [k \in 1..Len(tasks) |-> SyncResult(addedRepos[k], tasks[k].success)]

\* a sync promise whose syncRepository call has been made awaits it
SyncAwaited(k) == k \in 1..Len(tasks) /\ tasks[k].st = "sync"

\* apiClient.syncRepository of promise k returns or throws: the try or the
\* catch block up to the await of its loadInitialData
SyncResponse(k, returned) ==
  /\ pc = "sync"
  /\ SyncAwaited(k)
  /\ tasks' = [tasks EXCEPT ![k] = [st |-> "reload",
                                    success |-> SyncResult(addedRepos[k], returned).success]]
  /\ syncAnswers' = [syncAnswers EXCEPT ![k] = IF returned THEN "returned" ELSE "threw"]
  /\ backendRepos' = BackendAfterSync(backendRepos, addedRepos[k], returned)
  /\ LoadStarts
  /\ UNCHANGED <<pureVars, syncCalls, credentials, mountLoad,
                 showBatchAddDialog, showAddDialog, syncingRepos, notices, pc,
                 repositories, i, addedRepos, errors, batchResult, spc, newRepo,
                 saveResult, dpc, log>>

\* a join that the first promise to return would settle
AnySettled(ts) == \E k \in 1..Len(ts) : ts[k].st = "done"

\* a join that no promise settles
NeverSettled(ts) == FALSE

\* Promise.all(syncPromises) is settled: every promise has returned
AllSettled(ts) == \A k \in 1..Len(ts) : ts[k].st = "done"

\* the loadInitialData of promise k returns: its finally block; when it was
\* the last promise, handleBatchAdd's statements after Promise.all, then the
\* dialog's statements after onBatchAdd
SyncReloadResponse(k, ok) ==
  /\ pc = "sync"
  /\ k \in 1..Len(tasks)
  /\ tasks[k].st = "reload"
  /\ LoadEnds(ok)
  /\ syncingRepos' = syncingRepos \ {addedRepos[k]}
  /\ LET ts == [tasks EXCEPT ![k].st = "done"]
         results == [j \in 1..Len(ts) |-> SyncResult(addedRepos[j], ts[j].success)]
         successfulSyncs == Len(SelectSeq(results, LAMBDA r : r.success))
         failedSyncs == Len(SelectSeq(results, LAMBDA r : ~r.success))
         summary == IF failedSyncs > 0
                    THEN SyncFailedNotice(Len(addedRepos), failedSyncs)
                    ELSE SyncedNotice(successfulSyncs)
     IN /\ tasks' = ts
        /\ IF AllSettled(ts)
           THEN /\ pc' = "idle"
                /\ batchResult' = "resolved"
                /\ showBatchAddDialog' = FALSE
                /\ notices' = NoticesAfterLoad(ok)
                                \cup {summary, DialogAddedNotice(Len(repositories))}
                /\ processing' = IF attached THEN FALSE ELSE processing
                /\ progress' = IF attached THEN <<>> ELSE progress
           ELSE /\ notices' = NoticesAfterLoad(ok)
                /\ UNCHANGED <<pc, batchResult, showBatchAddDialog, processing, progress>>
  /\ UNCHANGED <<pureVars, syncCalls, backendVars, mountLoad, showAddDialog, urls, credentialId, error,
                 credentialError, repositories, i, addedRepos, errors, attached,
                 singleVars, dpc, log, syncAnswers>>

(***************************************************************************)
(* Dashboard.tsx: handleAddRepository, with RepositoryAddDialog's handleSave*)
(***************************************************************************)

\* the "+ Add Repository" button
ShowAdd ==
  /\ Visible /\ Quiet /\ ~showAddDialog /\ ~showBatchAddDialog
  /\ showAddDialog' = TRUE
  /\ addError' = ""
  /\ Forgotten
  /\ UNCHANGED <<pureVars, syncCalls, backendVars, credentials, initialLoading, mountLoad,
                 showBatchAddDialog, syncingRepos, dialogVars, pc, spc, saving, dpc>>

\* handleSave's checks of the URL, the id its effect derived and the
\* credential: the error it sets and returns with, or ""
SaveError(url, credId) ==
  IF Trim(url) = "" THEN "Repository URL is required"
  ELSE IF ~ParseUrl(url).ok THEN "Please enter a valid URL"
  ELSE IF Trim(repoNameFromUrl(url)) = "" THEN "Repository ID is required"
  ELSE IF Trim(credId) # "" /\ Trim(credId) \notin CredentialSuggestions(credentials)
  THEN "Invalid credential ID"
  ELSE ""

\* handleSave (the Save button) with the fields as typed, then onSave, which
\* runs handleAddRepository up to the await of addRepository
handleSave(url, credId) ==
  /\ Visible /\ Quiet /\ showAddDialog /\ ~saving
  /\ IF SaveError(url, credId) # ""
     THEN /\ addError' = SaveError(url, credId)
          /\ Forgotten
          /\ UNCHANGED <<spc, saving>>
     ELSE /\ addError' = ""
          /\ saving' = TRUE
          /\ spc' = "add"
          /\ newRepo' = Trim(repoNameFromUrl(url))
          /\ saveResult' = "pending"
          /\ notices' = {}
          /\ log' = <<AddCall(0)>>
          /\ UNCHANGED <<repositories, i, addedRepos, errors, tasks, attached,
                         batchResult, syncAnswers>>
  /\ UNCHANGED <<pureVars, syncCalls, backendVars, credentials, initialLoading, mountLoad,
                 showBatchAddDialog, showAddDialog, syncingRepos, dialogVars, pc, dpc>>

\* addRepository throws: handleAddRepository rethrows, the dialog's catch
\* and finally blocks keep it open with the message
SingleAddFails(message) ==
  /\ spc = "add"
  /\ message \in AddFailures
  /\ message = "Repository already exists" <=> newRepo \in backendRepos
  /\ spc' = "idle"
  /\ saveResult' = message
  /\ addError' = message
  /\ saving' = FALSE
  /\ notices' = notices \cup {ThrownNotice(message)}
  /\ log' = Append(log, AddReturn(0))
  /\ UNCHANGED <<pureVars, syncCalls, backendVars, credentials, initialLoading, mountLoad,
                 showBatchAddDialog, showAddDialog, syncingRepos, dialogVars,
                 batchVars, newRepo, dpc, syncAnswers>>

\* addRepository returns, with or without an id: loadInitialData up to its await
SingleAddSucceeds(withId) ==
  /\ spc = "add"
  /\ newRepo \notin backendRepos
  /\ backendRepos' = backendRepos \cup {newRepo}
  /\ newRepo' = IF withId THEN newRepo ELSE NULL
  /\ spc' = "reload"
  /\ log' = Append(log, AddReturn(0))
  /\ LoadStarts
  /\ UNCHANGED <<pureVars, syncCalls, credentials, mountLoad, showBatchAddDialog,
                 showAddDialog, syncingRepos, notices, pc, repositories, i,
                 addedRepos, errors, tasks, batchResult, saveResult, dpc, syncAnswers>>

\* what handleSave does once onSave has returned
SaveReturns(nts) ==
  /\ spc' = "idle"
  /\ saveResult' = "resolved"
  /\ showAddDialog' = FALSE
  /\ notices' = nts \cup {[type |-> "info", what |-> "Repository added successfully",
                           n |-> 0, m |-> 0]}

\* the loadInitialData after the add returns: the dialog is closed and the
\* new repository's sync is started, if the answer had an id
SingleReloadResponse(ok) ==
  /\ spc = "reload"
  /\ LoadEnds(ok)
  /\ IF newRepo # NULL
     THEN /\ showAddDialog' = FALSE
          /\ syncingRepos' = syncingRepos \cup {newRepo}
          /\ spc' = "sync"
          /\ log' = Append(log, SyncCall(newRepo))
          /\ notices' = NoticesAfterLoad(ok)
          /\ UNCHANGED saveResult
     ELSE /\ SaveReturns(NoticesAfterLoad(ok))
          /\ UNCHANGED <<syncingRepos, log>>
  /\ UNCHANGED <<pureVars, syncCalls, backendVars, mountLoad, showBatchAddDialog, dialogVars, batchVars,
                 newRepo, saving, addError, dpc, syncAnswers>>

\* the new repository's sync returns or throws: either way loadInitialData
\* up to its await
SingleSyncResponse(returned) ==
  /\ spc = "sync"
  /\ spc' = "sync_reload"
  /\ syncAnswers' = <<IF returned THEN "returned" ELSE "threw">>
  /\ backendRepos' = BackendAfterSync(backendRepos, newRepo, returned)
  /\ LoadStarts
  /\ UNCHANGED <<pureVars, syncCalls, credentials, mountLoad,
                 showBatchAddDialog, showAddDialog, syncingRepos, notices, pc,
                 repositories, i, addedRepos, errors, tasks, batchResult, newRepo,
                 saveResult, dpc, log>>

\* that loadInitialData returns: the finally block, and onSave has returned
SingleSyncReloadResponse(ok) ==
  /\ spc = "sync_reload"
  /\ LoadEnds(ok)
  /\ syncingRepos' = syncingRepos \ {newRepo}
  /\ SaveReturns(NoticesAfterLoad(ok))
  /\ UNCHANGED <<pureVars, syncCalls, backendVars, mountLoad, showBatchAddDialog, dialogVars, batchVars,
                 newRepo, saving, addError, dpc, log, syncAnswers>>

(***************************************************************************)
(* Dashboard.tsx: handleDelete                                             *)
(***************************************************************************)

\* handleDelete(id) of a tile, confirmed: up to the await of deleteRepository
handleDelete(id) ==
  /\ Visible /\ Quiet /\ ~showAddDialog /\ ~showBatchAddDialog
  /\ dpc' = "delete"
  /\ log' = <<DeleteCall(id)>>
  /\ notices' = {}
  /\ repositories' = <<>>
  /\ i' = 0
  /\ addedRepos' = <<>>
  /\ errors' = <<>>
  /\ tasks' = <<>>
  /\ attached' = FALSE
  /\ batchResult' = "none"
  /\ newRepo' = NULL
  /\ saveResult' = "none"
  /\ syncAnswers' = <<>>
  /\ UNCHANGED <<pureVars, syncCalls, backendVars, credentials, initialLoading, mountLoad,
                 showBatchAddDialog, showAddDialog, syncingRepos, dialogVars, pc, spc,
                 saving, addError>>

\* deleteRepository returns (loadInitialData up to its await) or throws; it
\* throws when the backend does not hold the repository
DeleteResponse(returned) ==
  /\ dpc = "delete"
  /\ returned => log[1].id \in backendRepos
  /\ IF returned
     THEN /\ backendRepos' = backendRepos \ {log[1].id}
          /\ dpc' = "reload"
          /\ LoadStarts
          /\ UNCHANGED notices
     ELSE /\ dpc' = "idle"
          /\ notices' = notices \cup {ThrownNotice("Failed to delete repository")}
          /\ UNCHANGED <<backendRepos, initialLoading, dialogVars, attached, saving,
                         addError>>
  /\ UNCHANGED <<pureVars, syncCalls, credentials, mountLoad, showBatchAddDialog,
                 showAddDialog, syncingRepos, pc, repositories, i, addedRepos, errors,
                 tasks, batchResult, spc, newRepo, saveResult, log, syncAnswers>>

\* the loadInitialData after the delete returns
DeleteReloadResponse(ok) ==
  /\ dpc = "reload"
  /\ dpc' = "idle"
  /\ LoadEnds(ok)
  /\ notices' = NoticesAfterLoad(ok)
                  \cup {[type |-> "info", what |-> "Repository deleted successfully",
                         n |-> 0, m |-> 0]}
  /\ UNCHANGED <<pureVars, syncCalls, backendVars, mountLoad, showBatchAddDialog, showAddDialog,
                 syncingRepos, dialogVars, batchVars, singleVars, log, syncAnswers>>

(***************************************************************************)
(* The system                                                              *)
(***************************************************************************)

Next ==
  \/ \E ok \in BOOLEAN : MountLoadResponse(ok)
  \/ ShowBatchAdd
  \/ \E text \in Texts : SetUrls(text)
  \/ \E value \in CredentialInputs : handleCredentialIdChange(value)
  \/ handleCancel
  \/ ReopenBatchAdd
  \/ BatchAddDialog_handleBatchAdd
  \/ \E message \in AddFailures : AddFails(message)
  \/ \E withId \in BOOLEAN : AddSucceeds(withId)
  \/ \E ok \in BOOLEAN : AddReloadResponse(ok)
  \/ \E k \in 1..Len(tasks), returned \in BOOLEAN : SyncResponse(k, returned)
  \/ \E k \in 1..Len(tasks), ok \in BOOLEAN : SyncReloadResponse(k, ok)
  \/ ShowAdd
  \/ \E url \in LineChoices, credId \in CredentialInputs : handleSave(url, credId)
  \/ \E message \in AddFailures : SingleAddFails(message)
  \/ \E withId \in BOOLEAN : SingleAddSucceeds(withId)
  \/ \E ok \in BOOLEAN : SingleReloadResponse(ok)
  \/ \E returned \in BOOLEAN : SingleSyncResponse(returned)
  \/ \E ok \in BOOLEAN : SingleSyncReloadResponse(ok)
  \/ \E id \in RepoIds : handleDelete(id)
  \/ \E returned \in BOOLEAN : DeleteResponse(returned)
  \/ \E ok \in BOOLEAN : DeleteReloadResponse(ok)

Spec == Init /\ [][Next]_vars

\* the remote calls of a handleBatchAdd call in flight return or throw
BatchResponses ==
  \/ \E message \in AddFailures : AddFails(message)
  \/ \E withId \in BOOLEAN : AddSucceeds(withId)
  \/ \E ok \in BOOLEAN : AddReloadResponse(ok)
  \/ \E k \in 1..Len(tasks), returned \in BOOLEAN : SyncResponse(k, returned)
  \/ \E k \in 1..Len(tasks), ok \in BOOLEAN : SyncReloadResponse(k, ok)

\* the system when every remote call of a batch is answered in the end
SpecAnswered == Init /\ [][Next]_vars /\ WF_vars(BatchResponses)

(***************************************************************************)
(* Properties of the batch onboarding                                      *)
(***************************************************************************)

\* a handleBatchAdd call has been made and its add loop is over
LoopOver == batchResult # "none" /\ pc \in {"idle", "sync"}

\* C1: for a batch of n items the progress callback receives exactly
\* (1,n), (2,n), ..., (n,n): what it has received so far is a prefix of that
\* sequence, and once the add loop is over it has received all n, whichever
\* adds succeeded or failed.
C1_ProgressSequence ==
  batchResult # "none" =>
    LET p == Only(log, "progress")
    IN /\ \A k \in 1..Len(p) : p[k].cur = k /\ p[k].tot = Len(repositories)
       /\ Len(p) <= Len(repositories)
       /\ LoopOver => Len(p) = Len(repositories)

\* C1 witness: a two-item batch has finished its add loop with one add
\* failed and one succeeded.
C1_Witness ==
  /\ LoopOver /\ Len(repositories) = 2
  /\ Len(errors) = 1 /\ Len(addedRepos) = 1
  /\ Len(Only(log, "progress")) = 2

\* C2: addRepository is called once per item, in input order, and never a
\* second time, and a failed add does not end the loop: once the loop is over
\* there is exactly one call for each of the n items.
C2_OneAddPerItem ==
  batchResult # "none" =>
    LET a == Only(log, "add")
    IN /\ \A k \in 1..Len(a) : a[k].idx = k - 1
       /\ Len(a) <= Len(repositories)
       /\ LoopOver => Len(a) = Len(repositories)

\* C2 witness: the first add of a two-item batch failed and the second add
\* has been called.
C2_Witness ==
  /\ batchResult = "pending" /\ pc = "add" /\ i = 1
  /\ Len(errors) = 1 /\ Len(repositories) = 2
  /\ Len(Only(log, "add")) = 2

\* C3: when addedRepos is empty after the add loop, handleBatchAdd throws
\* "No repositories were added successfully" and no syncRepository call is
\* made for the batch.
C3_FatalWhenNoneAdded ==
  (LoopOver /\ Len(addedRepos) = 0) =>
    /\ batchResult = FatalMessage
    /\ pc = "idle"
    /\ Only(log, "sync") = <<>>
    /\ tasks = <<>>

\* C3 witness: both adds of a two-item batch failed and the handler has thrown.
C3_Witness ==
  /\ batchResult = FatalMessage
  /\ Len(repositories) = 2 /\ Len(errors) = 2

\* C4 as stated: when at least one add of the batch succeeded (fewer add
\* errors than items once the loop is over), handleBatchAdd does not throw the
\* fatal error and syncRepository is called once for each id of addedRepos
\* and for no other id.
C4_NoFatalWhenOneAddSucceeds ==
  (LoopOver /\ Len(errors) < Len(repositories)) =>
    /\ batchResult # FatalMessage
    /\ Len(Only(log, "sync")) = Len(addedRepos)
    /\ \A k \in 1..Len(addedRepos) : Only(log, "sync")[k].id = addedRepos[k]

\* C5: while a line of the textarea is rejected by validateUrl, or the
\* selected credential is an SSH key and a line is an HTTP(S) URL, no step of
\* the dialog calls onBatchAdd: no handleBatchAdd call begins, no add or sync
\* call is made and the backend keeps its repositories.
C5_NoSideEffectOnPreflightFailure ==
  [][((\/ \E k \in 1..Len(urls) :
             Trim(urls[k]) # "" /\ validateUrl(Trim(urls[k])) # NULL
       \/ /\ \E c \in credentials : c.id = Trim(credentialId) /\ c.is_ssh_key
          /\ HasHttpUrl(parseUrls(urls)))
      /\ showBatchAddDialog /\ pc = "idle" /\ urls' = urls /\ credentialId' = credentialId)
     => /\ pc' = "idle"
        /\ batchResult' = "none"
        /\ Only(log', "add") = <<>>
        /\ Only(log', "sync") = <<>>
        /\ backendRepos' = backendRepos]_vars

\* C5 witness: the Add button was pressed with a valid line and an invalid
\* line, the errors are shown, and nothing was called.
C5_Witness ==
  /\ error.kind = "invalid_urls"
  /\ \E k \in 1..Len(urls) : Trim(urls[k]) # "" /\ validateUrl(Trim(urls[k])) = NULL
  /\ log = <<>> /\ pc = "idle"

\* C6: the adds are strictly sequential: at most one addRepository call has
\* not returned, and the call for item i+1 is made only after the call for
\* item i has returned and the progress update (i+1, n) has been made.
C6_SequentialAdds ==
  batchResult # "none" =>
    /\ Len(Only(log, "add")) - Len(Only(log, "add_return")) \in {0, 1}
    /\ \A p \in 1..Len(log) :
         (log[p].ev = "add" /\ log[p].idx > 0) =>
           /\ p >= 3
           /\ log[p - 1] = ProgressCall(log[p].idx, Len(repositories))
           /\ log[p - 2] = AddReturn(log[p].idx - 1)

\* C6 witness: the first add of a two-item batch returned and the second add
\* is in flight.
C6_Witness ==
  /\ batchResult = "pending" /\ pc = "add" /\ i = 1
  /\ Len(addedRepos) = 1
  /\ Len(Only(log, "add")) - Len(Only(log, "add_return")) = 1

\* C7: every sync is started before any is awaited: whenever handleBatchAdd
\* waits for the syncs, syncRepository has been called for every id of
\* addedRepos, in order, whatever the other syncs have or have not answered.
C7_AllSyncsStarted ==
  pc = "sync" =>
    /\ Len(tasks) = Len(addedRepos)
    /\ Len(Only(log, "sync")) = Len(addedRepos)
    /\ \A k \in 1..Len(addedRepos) : Only(log, "sync")[k].id = addedRepos[k]

\* C7 witness: two syncs have been started and neither has answered.
C7_Witness ==
  /\ pc = "sync" /\ Len(addedRepos) = 2
  /\ \A k \in 1..Len(tasks) : tasks[k].st = "sync"

\* C8: sync failures are isolated and joined: once the syncs are dispatched
\* handleBatchAdd never throws, it returns only when every sync promise has
\* finished, and syncResults has one entry per id of addedRepos whose success
\* flag is whether that syncRepository call returned.
C8_SyncsIsolatedAndJoined ==
  /\ Len(tasks) > 0 => batchResult \in {"pending", "resolved"}
  /\ (pc = "sync" /\ ~AllSettled(tasks)) => batchResult = "pending"
  /\ batchResult = "resolved" =>
       /\ Len(tasks) = Len(addedRepos)
       /\ \A k \in 1..Len(tasks) :
            /\ tasks[k].st = "done"
            /\ SyncResults[k].repoId = addedRepos[k]
            /\ SyncResults[k].success = (syncAnswers[k] = "returned")

\* C8 witness: a batch returned normally after its first sync threw and its
\* second sync returned.
C8_Witness ==
  /\ batchResult = "resolved"
  /\ syncAnswers = <<"threw", "returned">>

\* C9: there is no rollback: neither handleBatchAdd nor handleAddRepository
\* calls deleteRepository, and the repositories they added stay in the
\* backend whatever their syncs answer.
C9_NoRollback ==
  /\ (batchResult # "none" \/ saveResult # "none") => Only(log, "delete") = <<>>
  /\ batchResult # "none" => Range(addedRepos) \subseteq backendRepos
  /\ (spc \in {"sync", "sync_reload"} \/ saveResult = "resolved") =>
       (newRepo = NULL \/ newRepo \in backendRepos)

\* C9 witness: a batch returned after every one of its two syncs threw.
C9_Witness ==
  /\ batchResult = "resolved"
  /\ syncAnswers = <<"threw", "threw">>
  /\ Range(addedRepos) \subseteq backendRepos

\* C10: the validation collects the errors of all lines: the error shown has
\* exactly one entry for each non-blank line that validateUrl rejects, at that
\* line's position among the non-blank lines and with its message, and no
\* entry for a line that validateUrl accepts.
C10_AllUrlErrorsCollected ==
  error.kind = "invalid_urls" =>
    LET urlList == parseUrls(urls)
        invalid == {k \in 1..Len(urlList) : validateUrl(urlList[k]) # NULL}
    IN /\ Len(error.lines) = Cardinality(invalid)
       /\ {e.line : e \in Range(error.lines)} = invalid
       /\ \A e \in Range(error.lines) : e.error = validateUrl(urlList[e.line])

\* C10 witness: two invalid lines were submitted and both are reported.
C10_Witness ==
  /\ error.kind = "invalid_urls"
  /\ Len(error.lines) = 2

\* the dialog's handleBatchAdd has just called onBatchAdd: the first add is
\* in flight and the fields are as submitted
BatchStarted == pc = "add" /\ i = 0 /\ attached /\ processing

\* C11: the dialog's compatibility check fails with the mismatch error
\* exactly when a credential is selected, it is an SSH-key credential and some
\* item is an HTTP(S)-form URL (it starts with http:// or https:// and is not
\* classified as SSH): the mismatch error is shown only then, and a batch is
\* started only otherwise, so without a credential or with a password
\* credential the check passes for every mix of URLs.
C11_MismatchIffSshKeyAndHttpUrl ==
  LET cid == Trim(credentialId)
      urlList == parseUrls(urls)
      mismatch ==
        /\ cid # ""
        /\ \E c \in credentials : c.id = cid /\ c.is_ssh_key
        /\ \E k \in 1..Len(urlList) :
             /\ StartsWith(urlList[k], "http://") \/ StartsWith(urlList[k], "https://")
             /\ ~isSshUrl(urlList[k])
  IN /\ error.kind = "credential_mismatch" => mismatch
     /\ BatchStarted => ~mismatch

\* C11 witness: the Add button was pressed with an SSH line, an HTTPS line and
\* the SSH-key credential, and the mismatch error is shown.
C11_Witness ==
  /\ error.kind = "credential_mismatch"
  /\ Len(parseUrls(urls)) = 2
  /\ \E k \in 1..2 : isSshUrl(parseUrls(urls)[k])

(***************************************************************************)
(* The URL helpers of utils.ts, called on their own                        *)
(***************************************************************************)

\* the longest string of UrlAlphabet the helpers are called with
MaxUrlLen == 4

\* the characters isSshUrl looks for, and one other
UrlAlphabet == {"@", ":", "/", "a"}

RECURSIVE StringsUpTo(_, _)
StringsUpTo(alphabet, n) ==
  IF n = 0 THEN {""}
  ELSE StringsUpTo(alphabet, n - 1)
       \cup {str \o c : str \in StringsUpTo(alphabet, n - 1), c \in alphabet}

\* repository URLs put together from a scheme with or without userinfo, a
\* host, and a port and path
UrlHeads == {"", "https://", "http://", "git@", "https://u@", "https://u:p@", "ssh://git@"}
UrlHostNames == {"h.c", "h"}
UrlTails ==
  {"", "/", ":o/r.git", "/o/r.git", "/o/r", "/o-r", "/o/r.git.backup", "/o//r/",
   ":8443/o/r", "/o/r@v:1", ":o", "/r.git.git"}
ComposedUrls == {hd \o hn \o tl : hd \in UrlHeads, hn \in UrlHostNames, tl \in UrlTails}

UrlInputs == StringsUpTo(UrlAlphabet, MaxUrlLen) \cup ComposedUrls

\* a URL is given to the helpers
InitUrl ==
  /\ InitDashboard
  /\ backendRepos = {}
  /\ input \in {[fn |-> "url", url |-> u] : u \in UrlInputs}
  /\ output = NoOutput

\* isSshUrl(url) is called
CallIsSshUrl ==
  /\ input.fn = "url"
  /\ output' = [fn |-> "isSshUrl", value |-> isSshUrl(input.url)]
  /\ UNCHANGED <<input, syncCalls, backendRepos, credentials, initialLoading, mountLoad,
                 showBatchAddDialog, showAddDialog, syncingRepos, notices, dialogVars,
                 batchVars, singleVars, dpc, log, syncAnswers>>

\* repoNameFromUrl(url) is called
CallRepoNameFromUrl ==
  /\ input.fn = "url"
  /\ output' = [fn |-> "repoNameFromUrl", value |-> repoNameFromUrl(input.url)]
  /\ UNCHANGED <<input, syncCalls, backendRepos, credentials, initialLoading, mountLoad,
                 showBatchAddDialog, showAddDialog, syncingRepos, notices, dialogVars,
                 batchVars, singleVars, dpc, log, syncAnswers>>

\* the dialog's validateUrl(url) is called
CallValidateUrl ==
  /\ input.fn = "url"
  /\ output' = [fn |-> "validateUrl", value |-> validateUrl(input.url)]
  /\ UNCHANGED <<input, syncCalls, backendRepos, credentials, initialLoading, mountLoad,
                 showBatchAddDialog, showAddDialog, syncingRepos, notices, dialogVars,
                 batchVars, singleVars, dpc, log, syncAnswers>>

NextUrl == CallIsSshUrl \/ CallRepoNameFromUrl \/ CallValidateUrl

SpecUrl == InitUrl /\ [][NextUrl]_vars

\* the least element of a non-empty set of numbers
Least(S) == CHOOSE x \in S : \A y \in S : x <= y

\* the positions (1-based) of character c in s after position from
PositionsAfter(s, c, from) == {k \in (from + 1)..Len(s) : SubSeq(s, k, k) = c}

\* C12: isSshUrl(url) is true exactly when url has an '@' and, after the
\* first '@', a ':' occurs and either no '/' occurs or the first ':' is before
\* the first '/'.
C12_IsSshUrlRule ==
  output.fn = "isSshUrl" =>
    LET u == input.url
        ats == PositionsAfter(u, "@", 0)
    IN output.value =
         (/\ ats # {}
          /\ LET colons == PositionsAfter(u, ":", Least(ats))
                 slashes == PositionsAfter(u, "/", Least(ats))
             IN /\ colons # {}
                /\ slashes = {} \/ Least(colons) < Least(slashes))

\* C12 witness: isSshUrl returned true for an SSH reference that has a '/'
\* after its ':'.
C12_Witness ==
  /\ output.fn = "isSshUrl" /\ output.value
  /\ input.url = "git@h.c:o/r.git"

\* C13 as stated: isSshUrl returns false for every URL that starts with
\* http:// or https:// and parses as a URL, with or without userinfo and with
\* or without a port.
C13_HttpUrlsAreNotSsh ==
  (/\ output.fn = "isSshUrl"
   /\ StartsWith(input.url, "http://") \/ StartsWith(input.url, "https://")
   /\ ParseUrl(input.url).ok)
  => output.value = FALSE

\* the text of s before the first character of set, all of s if there is none
Before(s, set) == SubSeq(s, 1, FirstOf(s, set))

\* the text of s from the first character of set on, "" if there is none
From(s, set) == SubSeq(s, FirstOf(s, set) + 1, Len(s))

\* the identifier the derivation rule gives for a host and a path: the host
\* with '.' replaced by '_', then the non-empty segments of the path, each
\* without one trailing '.git', joined with '-'
DerivedId(host, path) ==
  LET segs == SelectSeq(Split(path, "/"), LAMBDA z : z # "")
      stripped == [k \in 1..Len(segs) |->
                     IF Len(segs[k]) >= 4 /\ SubSeq(segs[k], Len(segs[k]) - 3, Len(segs[k])) = ".git"
                     THEN SubSeq(segs[k], 1, Len(segs[k]) - 4) ELSE segs[k]]
  IN Join(<<ReplaceDots(host)>> \o stripped, "-")

\* url is http(s)://host[:port][/path] without userinfo
IsPlainHttpUrl(url) ==
  /\ StartsWith(url, "http://") \/ StartsWith(url, "https://")
  /\ PositionsAfter(Before(SubSeq(url, Least(PositionsAfter(url, "/", 0)) + 2, Len(url)),
                           {"/"}), "@", 0) = {}

\* the identifier the rule gives for a plain HTTP(S) URL: host and path of
\* the text after "://"
PlainHttpId(rest) == DerivedId(Before(Before(rest, {"/"}), {":"}), From(rest, {"/"}))

\* the identifier the rule gives for user@host:path
SshRefId(afterAt) ==
  DerivedId(Before(afterAt, {":"}), SubSeq(afterAt, FirstOf(afterAt, {":"}) + 2, Len(afterAt)))

\* C14 as stated: for every URL that validateUrl accepts and that is either
\* http(s)://host[:port]/path without userinfo or user@host:path,
\* repoNameFromUrl returns the host with '.' replaced by '_' (without the
\* port), then the non-empty path segments in order, each without one
\* trailing '.git', joined with '-'.
C14_DerivedIdentifier ==
  (output.fn = "repoNameFromUrl" /\ validateUrl(input.url) = NULL) =>
    IF IsPlainHttpUrl(input.url)
    THEN output.value =
           PlainHttpId(SubSeq(input.url, Least(PositionsAfter(input.url, "/", 0)) + 2,
                              Len(input.url)))
    ELSE (~StartsWith(input.url, "http://") /\ ~StartsWith(input.url, "https://")) =>
           output.value =
             SshRefId(SubSeq(input.url, Least(PositionsAfter(input.url, "@", 0)) + 1,
                             Len(input.url)))

\* C14 for the URLs without an '@' in the path of an HTTP(S) URL: for these
\* the statement holds.
C14_DerivedIdentifierWithoutAt ==
  (IsPlainHttpUrl(input.url) => PositionsAfter(input.url, "@", 0) = {}) => C14_DerivedIdentifier

\* url is user@host:path: it does not start with http:// or https://, and
\* isSshUrl accepts it
IsSshRef(url) ==
  ~StartsWith(url, "http://") /\ ~StartsWith(url, "https://") /\ isSshUrl(url)

\* the URLs given to repoNameFromUrl in pairs: those that validateUrl accepts
\* and that are user@host:path or http(s)://host[:port]/path without an '@'
PairUrls ==
  {u \in ComposedUrls :
     /\ validateUrl(u) = NULL
     /\ IsSshRef(u) \/ (IsPlainHttpUrl(u) /\ PositionsAfter(u, "@", 0) = {})}

\* two URLs are given to repoNameFromUrl
InitUrlPair ==
  /\ InitDashboard
  /\ backendRepos = {}
  /\ input \in {[fn |-> "urls", url |-> u, other |-> v] : u \in PairUrls, v \in PairUrls}
  /\ output = NoOutput

\* repoNameFromUrl is called for each of the two URLs
CallRepoNameFromUrlTwice ==
  /\ input.fn = "urls"
  /\ output' = [fn |-> "repoNameFromUrl", value |-> repoNameFromUrl(input.url),
                other |-> repoNameFromUrl(input.other)]
  /\ UNCHANGED <<input, syncCalls, backendRepos, credentials, initialLoading, mountLoad,
                 showBatchAddDialog, showAddDialog, syncingRepos, notices, dialogVars,
                 batchVars, singleVars, dpc, log, syncAnswers>>

NextUrlPair == CallRepoNameFromUrlTwice

SpecUrlPair == InitUrlPair /\ [][NextUrlPair]_vars

\* the text of url after "://" or after the first '@'
AfterHead(url) ==
  IF IsPlainHttpUrl(url)
  THEN SubSeq(url, Least(PositionsAfter(url, "/", 0)) + 2, Len(url))
  ELSE SubSeq(url, Least(PositionsAfter(url, "@", 0)) + 1, Len(url))

\* the host of a URL of PairUrls
HostPart(url) == Before(AfterHead(url), {":", "/"})

\* the non-empty path segments of a URL of PairUrls, each without one
\* trailing '.git'
SegmentsPart(url) ==
  LET rest == AfterHead(url)
      path == IF IsPlainHttpUrl(url) THEN From(rest, {"/"})
              ELSE SubSeq(rest, FirstOf(rest, {":"}) + 2, Len(rest))
      segs == SelectSeq(Split(path, "/"), LAMBDA z : z # "")
  IN [k \in 1..Len(segs) |->
        IF Len(segs[k]) >= 4 /\ SubSeq(segs[k], Len(segs[k]) - 3, Len(segs[k])) = ".git"
        THEN SubSeq(segs[k], 1, Len(segs[k]) - 4) ELSE segs[k]]

\* C15 as stated: two valid URLs whose hosts differ or whose sequences of
\* path segments differ get different identifiers from repoNameFromUrl.
C15_DistinctUrlsDistinctIds ==
  (/\ output.fn = "repoNameFromUrl" /\ input.fn = "urls"
   /\ \/ HostPart(input.url) # HostPart(input.other)
      \/ SegmentsPart(input.url) # SegmentsPart(input.other))
  => output.value # output.other

(***************************************************************************)
(* fuzzyMatch of Dashboard.tsx and of Autocomplete.tsx                     *)
(***************************************************************************)

\* String.prototype.toLowerCase on the letters A-Z; other characters are kept
LowerOf(c) ==
  IF \E k \in 1..26 : SubSeq("ABCDEFGHIJKLMNOPQRSTUVWXYZ", k, k) = c
  THEN LET k == CHOOSE k \in 1..26 : SubSeq("ABCDEFGHIJKLMNOPQRSTUVWXYZ", k, k) = c
       IN SubSeq("abcdefghijklmnopqrstuvwxyz", k, k)
  ELSE c

RECURSIVE ToLowerCase(_)
ToLowerCase(s) ==
  IF Len(s) = 0 THEN "" ELSE LowerOf(SubSeq(s, 1, 1)) \o ToLowerCase(SubSeq(s, 2, Len(s)))

\* String.prototype.includes
Includes(s, part) ==
  \E k \in 0..(Len(s) - Len(part)) : SubSeq(s, k + 1, k + Len(part)) = part

\* the for loop of Dashboard.tsx's fuzzyMatch from index idx on: the value of
\* queryIndex when it ends
RECURSIVE FuzzyScan(_, _, _, _)
FuzzyScan(textLower, queryLower, idx, queryIndex) ==
  IF idx < Len(textLower) /\ queryIndex < Len(queryLower)
  THEN FuzzyScan(textLower, queryLower, idx + 1,
                 IF CharAt(textLower, idx) = CharAt(queryLower, queryIndex)
                 THEN queryIndex + 1 ELSE queryIndex)
  ELSE queryIndex

\* a match that is the substring test only
FuzzyIncludesOnly(text, query) ==
  query = "" \/ Includes(ToLowerCase(text), ToLowerCase(query))

\* fuzzyMatch(text, query) of Dashboard.tsx
fuzzyMatch(text, query) ==
  IF query = "" THEN TRUE
  ELSE IF Includes(ToLowerCase(text), ToLowerCase(query)) THEN TRUE
  ELSE FuzzyScan(ToLowerCase(text), ToLowerCase(query), 0, 0) = Len(ToLowerCase(query))

\* the for loop of Autocomplete.tsx's fuzzyMatch
RECURSIVE Autocomplete_FuzzyScan(_, _, _, _)
Autocomplete_FuzzyScan(textLower, queryLower, idx, queryIndex) ==
  IF idx < Len(textLower) /\ queryIndex < Len(queryLower)
  THEN Autocomplete_FuzzyScan(textLower, queryLower, idx + 1,
                              IF CharAt(textLower, idx) = CharAt(queryLower, queryIndex)
                              THEN queryIndex + 1 ELSE queryIndex)
  ELSE queryIndex

\* fuzzyMatch(text, query) of Autocomplete.tsx
Autocomplete_fuzzyMatch(text, query) ==
  IF query = "" THEN TRUE
  ELSE IF Includes(ToLowerCase(text), ToLowerCase(query)) THEN TRUE
  ELSE Autocomplete_FuzzyScan(ToLowerCase(text), ToLowerCase(query), 0, 0)
         = Len(ToLowerCase(query))

\* the longest text and the longest query fuzzyMatch is called with
MaxTextLen == 4
MaxQueryLen == 3

\* two letters, one of them in both cases
FuzzyAlphabet == {"a", "b", "A"}

\* a text and a query are given to fuzzyMatch
InitFuzzy ==
  /\ InitDashboard
  /\ backendRepos = {}
  /\ input \in {[fn |-> "fuzzy", text |-> t, query |-> q] :
                  t \in StringsUpTo(FuzzyAlphabet, MaxTextLen),
                  q \in StringsUpTo(FuzzyAlphabet, MaxQueryLen)}
  /\ output = NoOutput

\* Dashboard.tsx's fuzzyMatch is called
CallFuzzyMatch ==
  /\ input.fn = "fuzzy"
  /\ output' = [fn |-> "Dashboard.fuzzyMatch", value |-> fuzzyMatch(input.text, input.query)]
  /\ UNCHANGED <<input, syncCalls, backendRepos, credentials, initialLoading, mountLoad,
                 showBatchAddDialog, showAddDialog, syncingRepos, notices, dialogVars,
                 batchVars, singleVars, dpc, log, syncAnswers>>

\* Autocomplete.tsx's fuzzyMatch is called
CallAutocompleteFuzzyMatch ==
  /\ input.fn = "fuzzy"
  /\ output' = [fn |-> "Autocomplete.fuzzyMatch",
                value |-> Autocomplete_fuzzyMatch(input.text, input.query)]
  /\ UNCHANGED <<input, syncCalls, backendRepos, credentials, initialLoading, mountLoad,
                 showBatchAddDialog, showAddDialog, syncingRepos, notices, dialogVars,
                 batchVars, singleVars, dpc, log, syncAnswers>>

NextFuzzy == CallFuzzyMatch \/ CallAutocompleteFuzzyMatch

SpecFuzzy == InitFuzzy /\ [][NextFuzzy]_vars

\* q can be embedded in t as an order-preserving subsequence
IsSubsequence(q, t) ==
  \E f \in [1..Len(q) -> 1..Len(t)] :
    /\ \A j \in 1..Len(q) : SubSeq(t, f[j], f[j]) = SubSeq(q, j, j)
    /\ \A j \in 1..(Len(q) - 1) : f[j] < f[j + 1]

\* C16: both copies of fuzzyMatch return true exactly when the query is empty
\* or the lower-cased query is an order-preserving subsequence of the
\* lower-cased text.
C16_FuzzyMatchIsSubsequence ==
  output.fn \in {"Dashboard.fuzzyMatch", "Autocomplete.fuzzyMatch"} =>
    output.value =
      (input.query = "" \/ IsSubsequence(ToLowerCase(input.query), ToLowerCase(input.text)))

\* C16 witness: Autocomplete's fuzzyMatch accepted a query that is in the
\* text only with a gap and only after case folding.
C16_Witness ==
  /\ output.fn = "Autocomplete.fuzzyMatch" /\ output.value
  /\ input.text = "abA" /\ input.query = "aa"

(***************************************************************************)
(* Dashboard.tsx: filteredRepositories                                     *)
(*                                                                         *)
(* An optional value (undefined or null in the code) is a sequence of no   *)
(* element or of one element.                                              *)
(***************************************************************************)

\* the host of a parsed URL, absent when the URL does not parse
HostOfParsed(parsedUrl) == IF parsedUrl.ok THEN <<parsedUrl.hostname>> ELSE <<>>

\* extractHost(url): the hostname of the URL as it is, absent when the URL
\* does not parse
extractHost(url) == HostOfParsed(ParseUrl(url))

\* the first non-empty segment of a parsed URL's path, absent when there is
\* none or the URL does not parse
OrgOfParsed(parsedUrl) ==
  IF parsedUrl.ok /\ NonEmpty(Split(parsedUrl.pathname, "/")) # <<>>
  THEN <<Head(NonEmpty(Split(parsedUrl.pathname, "/")))>> ELSE <<>>

\* extractOrg(url)
extractOrg(url) == OrgOfParsed(ParseUrl(url))

\* an optional string is truthy: it is there and not empty
Truthy(opt) == opt # <<>> /\ opt[1] # ""

\* the host facet of the filter callback for the extracted host
HostFacetPasses(repoHost, host) == Truthy(repoHost) /\ fuzzyMatch(repoHost[1], host)

\* the org facet of the filter callback for the extracted org
OrgFacetPasses(repoOrg, org) == Truthy(repoOrg) /\ fuzzyMatch(repoOrg[1], org)

\* hasError of the filter callback
HasError(repo) == repo.error # <<>> /\ Trim(repo.error[1]) # ""

\* a callback that does not look at the enabled facet
RepoPassesWithoutEnabled(repo, filters) ==
  /\ Truthy(filters.name) => fuzzyMatch(repo.id, filters.name[1])
  /\ Truthy(filters.host) => HostFacetPasses(extractHost(repo.url), filters.host[1])
  /\ Truthy(filters.org) => OrgFacetPasses(extractOrg(repo.url), filters.org[1])
  /\ filters.has_error # <<>> => filters.has_error[1] = HasError(repo)

\* a callback that stops at a name that matches
RepoPassesOnNameAlone(repo, filters) ==
  IF Truthy(filters.name) THEN fuzzyMatch(repo.id, filters.name[1])
  ELSE RepoPassesWithoutEnabled(repo, filters)
       /\ (filters.enabled # <<>> => filters.enabled[1] = repo.enabled)

\* the callback of allRepositories.filter: whether repo is kept
RepoPasses(repo, filters) ==
  IF Truthy(filters.name) /\ ~fuzzyMatch(repo.id, filters.name[1]) THEN FALSE
  ELSE IF Truthy(filters.host) /\ ~HostFacetPasses(extractHost(repo.url), filters.host[1])
  THEN FALSE
  ELSE IF Truthy(filters.org) /\ ~OrgFacetPasses(extractOrg(repo.url), filters.org[1])
  THEN FALSE
  ELSE IF filters.has_error # <<>> /\ filters.has_error[1] # HasError(repo) THEN FALSE
  ELSE IF filters.enabled # <<>> /\ filters.enabled[1] # repo.enabled THEN FALSE
  ELSE TRUE

\* filteredRepositories
filteredRepositories(allRepositories, filters) ==
  SelectSeq(allRepositories, LAMBDA repo : RepoPasses(repo, filters))

\* the most repositories the dashboard holds when it filters
MaxRecords == 2

\* the repositories the backend can return: with and without an org, with an
\* SSH URL, enabled and disabled, without an error, with a blank one, with
\* an empty one and with one
RecordChoices ==
  {[id |-> "h_c-o-r", url |-> "http://h.c/o/r", enabled |-> TRUE, error |-> <<>>],
   [id |-> "g-p", url |-> "http://g/p", enabled |-> FALSE, error |-> <<"e">>],
   [id |-> "h_c-o-q", url |-> "git@h.c:o/q", enabled |-> TRUE, error |-> <<" ">>],
   [id |-> "h_c", url |-> "http://h.c", enabled |-> FALSE, error |-> <<"">>]}

RecordLists == UNION {[1..n -> RecordChoices] : n \in 0..MaxRecords}

\* the filters the panel can set
FilterChoices ==
  [name : {<<>>, <<"">>, <<"hcr">>},
   host : {<<>>, <<"">>, <<"h.c">>},
   org : {<<>>, <<"o">>},
   has_error : {<<>>, <<TRUE>>, <<FALSE>>},
   enabled : {<<>>, <<TRUE>>, <<FALSE>>}]

\* the filters with the name facet only, and without it
NameFacetOnly(filters) ==
  [name |-> filters.name, host |-> <<>>, org |-> <<>>, has_error |-> <<>>, enabled |-> <<>>]
WithoutNameFacet(filters) == [filters EXCEPT !.name = <<>>]

\* repositories and filters are given to the dashboard
InitFilter ==
  /\ InitDashboard
  /\ backendRepos = {}
  /\ input \in {[fn |-> "filter", allRepositories |-> rs, filters |-> f] :
                  rs \in RecordLists, f \in FilterChoices}
  /\ output = NoOutput

\* filteredRepositories is computed
CallFilteredRepositories ==
  /\ input.fn = "filter"
  /\ output' = [fn |-> "filteredRepositories",
                value |-> filteredRepositories(input.allRepositories, input.filters)]
  /\ UNCHANGED <<input, syncCalls, backendRepos, credentials, initialLoading, mountLoad,
                 showBatchAddDialog, showAddDialog, syncingRepos, notices, dialogVars,
                 batchVars, singleVars, dpc, log, syncAnswers>>

\* filteredRepositories is computed for the filters, and in two passes: for
\* the name facet and then the others, and the other way round
CallFilteredRepositoriesInPasses ==
  /\ input.fn = "filter"
  /\ output' =
       [fn |-> "filteredRepositories in passes",
        value |-> filteredRepositories(input.allRepositories, input.filters),
        nameFirst |->
          filteredRepositories(
            filteredRepositories(input.allRepositories, NameFacetOnly(input.filters)),
            WithoutNameFacet(input.filters)),
        nameLast |->
          filteredRepositories(
            filteredRepositories(input.allRepositories, WithoutNameFacet(input.filters)),
            NameFacetOnly(input.filters))]
  /\ UNCHANGED <<input, syncCalls, backendRepos, credentials, initialLoading, mountLoad,
                 showBatchAddDialog, showAddDialog, syncingRepos, notices, dialogVars,
                 batchVars, singleVars, dpc, log, syncAnswers>>

NextFilter == CallFilteredRepositories \/ CallFilteredRepositoriesInPasses

SpecFilter == InitFilter /\ [][NextFilter]_vars

\* a criterion is present: it is set, and a text criterion is not empty
Present(criterion) == criterion # <<>> /\ criterion[1] # ""

\* C17: filteredRepositories is, in input order, exactly the records that
\* satisfy every present criterion: name fuzzy-matches the id; host
\* fuzzy-matches the extracted host, which must exist; org fuzzy-matches the
\* extracted org, which must exist; has_error equals (error is not null and
\* not blank); enabled equals the record's flag.
C17_FilterKeepsExactlyTheMatches ==
  output.fn = "filteredRepositories" =>
    LET f == input.filters
        Satisfies(r) ==
          /\ Present(f.name) => fuzzyMatch(r.id, f.name[1])
          /\ Present(f.host) =>
               (extractHost(r.url) # <<>> /\ fuzzyMatch(extractHost(r.url)[1], f.host[1]))
          /\ Present(f.org) =>
               (extractOrg(r.url) # <<>> /\ fuzzyMatch(extractOrg(r.url)[1], f.org[1]))
          /\ f.has_error # <<>> =>
               (f.has_error[1] <=> (r.error # <<>> /\ Trim(r.error[1]) # ""))
          /\ f.enabled # <<>> => (f.enabled[1] <=> r.enabled)
        kept == {k \in 1..Len(input.allRepositories) : Satisfies(input.allRepositories[k])}
    IN /\ Len(output.value) = Cardinality(kept)
       /\ \A j \in 1..Len(output.value) :
            \E k \in kept :
              /\ output.value[j] = input.allRepositories[k]
              /\ Cardinality({m \in kept : m < k}) = j - 1

\* C17 witness: of two records the filter kept the second only, with the
\* host, has_error and enabled criteria set.
C17_Witness ==
  /\ output.fn = "filteredRepositories"
  /\ Len(input.allRepositories) = 2 /\ Len(output.value) = 1
  /\ output.value[1] = input.allRepositories[2]
  /\ input.allRepositories[1] # input.allRepositories[2]
  /\ Present(input.filters.host)
  /\ input.filters.has_error # <<>> /\ input.filters.enabled # <<>>

\* C18: the facets compose: filtering by the filters gives the same list as
\* filtering by the name facet and then by the other facets, and as filtering
\* by the other facets and then by the name facet.
C18_FacetsCompose ==
  output.fn = "filteredRepositories in passes" =>
    /\ output.value = output.nameFirst
    /\ output.value = output.nameLast

\* C18 witness: the name facet and the enabled facet each removed a record.
C18_Witness ==
  /\ output.fn = "filteredRepositories in passes"
  /\ Len(input.allRepositories) = 2 /\ output.value = <<>>
  /\ Present(input.filters.name) /\ input.filters.enabled # <<>>
  /\ Len(filteredRepositories(input.allRepositories, NameFacetOnly(input.filters))) = 1
  /\ Len(filteredRepositories(input.allRepositories, WithoutNameFacet(input.filters))) = 1

(***************************************************************************)
(* Autocomplete.tsx: filteredSuggestions                                   *)
(***************************************************************************)

\* array.slice(0, end) for an end that is a natural number
SliceFromStart(array, end) ==
  SubSeq(array, 1, IF end < Len(array) THEN end ELSE Len(array))

\* suggestions cut to maxSuggestions before they are matched
SuggestionsSlicedFirst(suggestions, value, maxSuggestions) ==
  IF Len(value) > 0
  THEN SelectSeq(SliceFromStart(suggestions, maxSuggestions),
                 LAMBDA suggestion : Autocomplete_fuzzyMatch(suggestion, value))
  ELSE SliceFromStart(suggestions, maxSuggestions)

\* filteredSuggestions
filteredSuggestions(suggestions, value, maxSuggestions) ==
  IF Len(value) > 0
  THEN SliceFromStart(
         SelectSeq(suggestions, LAMBDA suggestion : Autocomplete_fuzzyMatch(suggestion, value)),
         maxSuggestions)
  ELSE SliceFromStart(suggestions, maxSuggestions)

\* the most suggestions given to the component, and the largest maxSuggestions
MaxCandidates == 3
MaxSuggestionsProp == 2

\* the suggestions and the values typed
CandidateChoices == {"ab", "Ba", "b"}
ValueChoices == {"", "a", "ab", "B"}
CandidateLists == UNION {[1..n -> CandidateChoices] : n \in 0..MaxCandidates}

\* the component is rendered with suggestions, a value and maxSuggestions
InitSuggest ==
  /\ InitDashboard
  /\ backendRepos = {}
  /\ input \in {[fn |-> "suggest", suggestions |-> c, value |-> v, maxSuggestions |-> m] :
                  c \in CandidateLists, v \in ValueChoices, m \in 0..MaxSuggestionsProp}
  /\ output = NoOutput

\* filteredSuggestions is computed
CallFilteredSuggestions ==
  /\ input.fn = "suggest"
  /\ output' = [fn |-> "filteredSuggestions",
                value |-> filteredSuggestions(input.suggestions, input.value,
                                              input.maxSuggestions)]
  /\ UNCHANGED <<input, syncCalls, backendRepos, credentials, initialLoading, mountLoad,
                 showBatchAddDialog, showAddDialog, syncingRepos, notices, dialogVars,
                 batchVars, singleVars, dpc, log, syncAnswers>>

NextSuggest == CallFilteredSuggestions

SpecSuggest == InitSuggest /\ [][NextSuggest]_vars

\* the positions of the candidates that fuzzy-match the value; every
\* candidate matches an empty value
MatchingPositions(suggestions, value) ==
  {k \in 1..Len(suggestions) : value = "" \/ Autocomplete_fuzzyMatch(suggestions[k], value)}

\* C19: filteredSuggestions is the first min(maxSuggestions, k) of the k
\* candidates that fuzzy-match the value, in input order; it never has more
\* than maxSuggestions elements nor a candidate that does not match.
C19_FirstMatchesUpToMax ==
  output.fn = "filteredSuggestions" =>
    LET matching == MatchingPositions(input.suggestions, input.value)
        k == Cardinality(matching)
    IN /\ Len(output.value) = IF input.maxSuggestions < k THEN input.maxSuggestions ELSE k
       /\ Len(output.value) <= input.maxSuggestions
       /\ \A j \in 1..Len(output.value) :
            /\ \E m \in matching :
                 /\ output.value[j] = input.suggestions[m]
                 /\ Cardinality({n \in matching : n < m}) = j - 1
            /\ input.value # "" => Autocomplete_fuzzyMatch(output.value[j], input.value)

\* C19 witness: of three candidates the first does not match, the other two
\* do, and maxSuggestions 1 kept the second candidate alone.
C19_Witness ==
  /\ output.fn = "filteredSuggestions"
  /\ Len(input.suggestions) = 3 /\ input.maxSuggestions = 1 /\ input.value # ""
  /\ MatchingPositions(input.suggestions, input.value) = {2, 3}
  /\ output.value = <<input.suggestions[2]>>

(***************************************************************************)
(* The progress shown by the batch dialog                                  *)
(***************************************************************************)

\* the progress shown is within its range for the batch being added
ProgressInRange ==
  progress # <<>> =>
    /\ 0 <= progress[1] /\ progress[1] <= progress[2]
    /\ progress[2] = Len(repositories)

\* a step from one progress shown to another does not lower current
ProgressStepsUp ==
  (progress # <<>> /\ progress' # <<>>) => progress'[1] >= progress[1]

\* C20: in every reachable state the progress shown by the dialog, when
\* there is one, has 0 <= current <= total and total equal to the number of
\* batch items, and from one value shown to the next within a run current
\* never decreases.
C20_ProgressBounded == []ProgressInRange /\ [][ProgressStepsUp]_vars

\* C20 witness: in a batch of two items the dialog shows 1 of 2 after the
\* first attempt, and the second add is awaited.
C20_Witness ==
  /\ pc = "add" /\ i = 1 /\ attached /\ processing
  /\ Len(repositories) = 2
  /\ progress = <<1, 2>>

(***************************************************************************)
(* The single-repository add                                               *)
(***************************************************************************)

\* handleSave's call of onSave has thrown
SaveFailed == saveResult \in AddFailures

\* handleSave's call of onSave has returned
SaveDone == saveResult = "resolved"

\* C21: in the single-repository add a failed add is fatal: the error is in
\* the dialog, the dialog stays open and no sync is called; a successful add
\* is followed by exactly one sync, of the repository added, and when that
\* sync throws the add still returns and the backend still holds the
\* repository.
C21_SingleAddThenOneSync ==
  /\ SaveFailed =>
       /\ showAddDialog /\ addError = saveResult
       /\ Only(log, "sync") = <<>>
  /\ SaveDone =>
       /\ Len(Only(log, "sync")) = 1
       /\ Only(log, "sync")[1].id \in backendRepos

\* the same for the adds whose answer carries the id
C21_SingleAddWithIdThenOneSync ==
  /\ SaveFailed =>
       /\ showAddDialog /\ addError = saveResult
       /\ Only(log, "sync") = <<>>
  /\ (SaveDone /\ newRepo # NULL) =>
       /\ Only(log, "sync") = <<SyncCall(newRepo)>>
       /\ newRepo \in backendRepos

(***************************************************************************)
(* Validation of SSH-form lines                                            *)
(***************************************************************************)

\* what follows the first '@' of an SSH-form line, the host before its first
\* ':' and the path after it
SshAfterAt(url) == SubstringFrom(url, IndexOf(url, "@") + 1)
SshHost(url) == Substring(SshAfterAt(url), 0, IndexOf(SshAfterAt(url), ":"))
SshPath(url) == SubstringFrom(SshAfterAt(url), IndexOf(SshAfterAt(url), ":") + 1)

\* C22: validateUrl accepts an SSH-form line only if the host before the
\* ':' and the path after it are both non-empty.
C22_SshLineNeedsHostAndPath ==
  (output.fn = "validateUrl" /\ isSshUrl(input.url) /\ output.value = NULL)
  => (SshHost(input.url) # "" /\ SshPath(input.url) # "")

(***************************************************************************)
(* The summaries of a batch                                                *)
(***************************************************************************)

\* the notifications that state a number of added repositories
AddedSummaries ==
  {nt \in notices : nt.what \in {"Added, syncs failed", "Successfully added and synced",
                                 "Successfully added"}}

\* C23: when a batch has completed without the fatal error, every summary
\* shown to the operator states as the number of added repositories the
\* number of repositories that were added, the length of addedRepos.
C23_SummariesCountAdded ==
  batchResult = "resolved" => \A nt \in AddedSummaries : nt.n = Len(addedRepos)

\* the same for the summaries the dashboard's handleBatchAdd shows
C23_DashboardSummariesCountAdded ==
  batchResult = "resolved" =>
    \A nt \in AddedSummaries : nt.what # "Successfully added" => nt.n = Len(addedRepos)

(***************************************************************************)
(* The phases of a batch                                                   *)
(***************************************************************************)

\* C24: the batch is one forward pass: no syncRepository call is made before
\* the add attempt of the last item has returned, no addRepository call is
\* made after the first syncRepository call, and while the syncs are awaited
\* the loop has gone through every item.
C24_AddsThenSyncs ==
  batchResult # "none" =>
    /\ \A p \in 1..Len(log) :
         log[p].ev = "sync" =>
           /\ \E q \in 1..(p - 1) : log[q] = AddReturn(Len(repositories) - 1)
           /\ \A q \in (p + 1)..Len(log) : log[q].ev # "add"
    /\ pc = "sync" => i = Len(repositories)

\* C24 witness: a two-item batch has completed with both items added and
\* both syncs called.
C24_Witness ==
  /\ batchResult = "resolved" /\ Len(repositories) = 2
  /\ Len(addedRepos) = 2 /\ Len(Only(log, "sync")) = 2

(***************************************************************************)
(* The line numbers of the syntax errors                                   *)
(***************************************************************************)

\* the positions (1-based) in the textarea of the lines validateUrl rejects
InvalidPositions(urlText) ==
  {k \in 1..Len(urlText) : Trim(urlText[k]) # "" /\ validateUrl(Trim(urlText[k])) # NULL}

\* C25: the line number reported for an invalid URL is the 1-based position
\* of that line in the text the operator entered, also when blank lines come
\* before it.
C25_ErrorLineIsPositionInText ==
  error.kind = "invalid_urls" =>
    /\ {e.line : e \in Range(error.lines)} = InvalidPositions(urls)
    /\ \A e \in Range(error.lines) : e.error = validateUrl(Trim(urls[e.line]))

\* the same for a text without blank lines
C25_ErrorLineIsPositionWithoutBlanks ==
  (error.kind = "invalid_urls" /\ \A k \in 1..Len(urls) : Trim(urls[k]) # "") =>
    /\ {e.line : e \in Range(error.lines)} = InvalidPositions(urls)
    /\ \A e \in Range(error.lines) : e.error = validateUrl(Trim(urls[e.line]))

(***************************************************************************)
(* A batch in flight and the dialog's events; termination                  *)
(***************************************************************************)

\* every item has had its add attempt
AllItemsAttempted ==
  /\ Len(Only(log, "add")) = Len(repositories)
  /\ Len(Only(log, "add_return")) = Len(repositories)

\* every added repository has had its sync, and the syncs have finished
AllAddedSynced ==
  /\ Only(log, "sync") = SyncCalls(addedRepos)
  /\ Len(addedRepos) > 0 => (Len(tasks) = Len(addedRepos) /\ AllSettled(tasks))

\* C26: a batch cannot be cancelled once its adds have begun: when the
\* dialog is closed while the batch is in flight, then, whatever dialog
\* events follow (cancel, close, reopen), the batch comes to its end with
\* an add attempt made for every item and a sync made for every added
\* repository.
C26_CancelDoesNotStopBatch ==
  (batchResult = "pending" /\ ~showBatchAddDialog)
    ~> (batchResult # "pending" /\ AllItemsAttempted /\ AllAddedSynced)

\* C26 witness: the dialog was closed during a two-item batch, both adds
\* have returned and the syncs of the added repositories are awaited.
C26_Witness ==
  /\ pc = "sync" /\ ~showBatchAddDialog
  /\ Len(repositories) = 2 /\ AllItemsAttempted
  /\ Only(log, "sync") = SyncCalls(addedRepos)

\* handleBatchAdd has ended: with the fatal error and no sync started, or
\* normally after every sync has finished; the dialog is not processing
\* and shows no progress
BatchEnded ==
  /\ pc = "idle" /\ ~processing /\ progress = <<>>
  /\ \/ batchResult = FatalMessage /\ Only(log, "sync") = <<>> /\ tasks = <<>>
     \/ /\ batchResult = "resolved"
        /\ Len(tasks) = Len(addedRepos) /\ Len(tasks) > 0 /\ AllSettled(tasks)

\* C30: when every add, reload and sync call returns in the end, a batch
\* in flight comes to its end: the fatal error with no sync started, or
\* normal completion after every sync has finished, with the dialog out of
\* its processing state and the progress cleared; and a batch that is no
\* longer in flight has ended that way.
C30_BatchTerminates ==
  /\ (batchResult = "pending") ~> BatchEnded
  /\ [](batchResult \notin {"none", "pending"} => BatchEnded)

\* C30 witness: a two-item batch has ended normally after its two syncs.
C30_Witness ==
  /\ BatchEnded /\ batchResult = "resolved"
  /\ Len(repositories) = 2 /\ Len(tasks) = 2

(***************************************************************************)
(* The account of the add loop                                             *)
(***************************************************************************)

\* C27: after the add loop of an n-item batch every item is accounted for
\* once, in addedRepos or in errors: their lengths add up to n, whatever the
\* addRepository calls answered.
C27_EveryItemAccounted ==
  LoopOver => Len(addedRepos) + Len(errors) = Len(repositories)

(***************************************************************************)
(* Dashboard.tsx: handleSync, the Sync button of a repository's tile       *)
(***************************************************************************)

\* the most handleSync calls in flight at a time
MaxSyncCalls == 2

SyncStatusNotice == [type |-> "info", what |-> "Sync status", n |-> 0, m |-> 0]

\* prev => { next = new Set(prev); next.delete(id); return next }
SetDelete(set, id) == set \ {id}

\* a sequence without its element at position c
WithoutCall(calls, c) == SubSeq(calls, 1, c - 1) \o SubSeq(calls, c + 1, Len(calls))

\* handleSync(id) of a tile, whose button is not disabled while the
\* repository is syncing: up to the await of syncRepository
handleSync(id) ==
  /\ Visible /\ id \in backendRepos
  /\ Len(syncCalls) < MaxSyncCalls
  /\ syncingRepos' = syncingRepos \cup {id}
  /\ syncCalls' = Append(syncCalls, [id |-> id, st |-> "sync"])
  /\ UNCHANGED <<pureVars, backendVars, credentials, initialLoading, mountLoad,
                 showBatchAddDialog, showAddDialog, notices, dialogVars, batchVars,
                 singleVars, dpc, log, syncAnswers>>

\* syncRepository of call c returns (loadInitialData up to its await) or
\* throws (the catch and finally blocks)
TileSyncResponse(c, returned) ==
  /\ c \in 1..Len(syncCalls)
  /\ syncCalls[c].st = "sync"
  /\ IF returned
     THEN /\ syncCalls' = [syncCalls EXCEPT ![c].st = "reload"]
          /\ LoadStarts
          /\ UNCHANGED <<syncingRepos, notices>>
     ELSE /\ syncCalls' = WithoutCall(syncCalls, c)
          /\ syncingRepos' = SetDelete(syncingRepos, syncCalls[c].id)
          /\ notices' = notices \cup {ThrownNotice("Failed to sync repository")}
          /\ UNCHANGED <<initialLoading, dialogVars, attached, saving, addError>>
  /\ UNCHANGED <<pureVars, backendVars, credentials, mountLoad, showBatchAddDialog,
                 showAddDialog, pc, repositories, i, addedRepos, errors, tasks,
                 batchResult, spc, newRepo, saveResult, dpc, log, syncAnswers>>

\* the loadInitialData of call c returns: showInfo and the finally block
TileSyncReloadResponse(c, ok) ==
  /\ c \in 1..Len(syncCalls)
  /\ syncCalls[c].st = "reload"
  /\ LoadEnds(ok)
  /\ syncCalls' = WithoutCall(syncCalls, c)
  /\ syncingRepos' = SetDelete(syncingRepos, syncCalls[c].id)
  /\ notices' = NoticesAfterLoad(ok) \cup {SyncStatusNotice}
  /\ UNCHANGED <<pureVars, backendVars, mountLoad, showBatchAddDialog, showAddDialog,
                 dialogVars, batchVars, singleVars, dpc, log, syncAnswers>>

\* the dashboard with its tiles' Sync buttons
NextTileSync ==
  \/ \E ok \in BOOLEAN : MountLoadResponse(ok)
  \/ \E id \in RepoIds : handleSync(id)
  \/ \E c \in 1..Len(syncCalls), returned \in BOOLEAN : TileSyncResponse(c, returned)
  \/ \E c \in 1..Len(syncCalls), ok \in BOOLEAN : TileSyncReloadResponse(c, ok)

SpecTileSync == Init /\ [][NextTileSync]_vars

\* the ids of the syncs in flight: those of the handleSync calls, of the
\* batch's sync promises and of handleAddRepository's sync
InFlightSyncs ==
  {syncCalls[c].id : c \in 1..Len(syncCalls)}
    \cup {addedRepos[k] : k \in {j \in 1..Len(tasks) : tasks[j].st # "done"}}
    \cup (IF spc \in {"sync", "sync_reload"} THEN {newRepo} ELSE {})

\* C28: syncingRepos tracks the syncs in flight: an id is in it exactly when
\* a sync of that id has been started and has not finished, also when syncs
\* of one id overlap, and it is empty when no sync is in flight.
C28_SyncingReposTracksSyncs == syncingRepos = InFlightSyncs

\* the same for the syncs of the batch and of the single add, which do not
\* overlap
C28_BatchAndSingleSyncsTracked ==
  syncCalls = <<>> => syncingRepos = InFlightSyncs

(***************************************************************************)
(* Identifier derivation and URL classification                            *)
(***************************************************************************)

\* the identifier of the SSH branch: the host between the first '@' and the
\* first ':' after it, and the segments of the path after that ':'
SshBranchId(url) ==
  Join(<<ReplaceDots(SshHost(url))>> \o CleanSegments(SshPath(url)), "-")

\* the identifier of the HTTP(S) branch: from the parsed hostname and
\* pathname, or the catch block's extraction when the URL does not parse
ParsedBranchId(url) == RepoNameParsed(url, ParseUrl(url))

\* C29: repoNameFromUrl agrees with isSshUrl: the identifier is that of the
\* SSH branch when isSshUrl(url) is true, and that of the parsed hostname
\* and pathname when it is false.
C29_DerivationFollowsClassification ==
  output.fn = "repoNameFromUrl" =>
    output.value = IF isSshUrl(input.url) THEN SshBranchId(input.url)
                   ELSE ParsedBranchId(input.url)

\* one half of it: a URL that isSshUrl classifies as SSH gets the
\* identifier of the SSH branch
C29_SshUrlsTakeSshBranch ==
  (output.fn = "repoNameFromUrl" /\ isSshUrl(input.url)) =>
    output.value = SshBranchId(input.url)

====
